---- MODULE Spec2Model ----
(***************************************************************************)
(* AIG Investment Clock backtest (backtest.py): rolling-percentile regime  *)
(* classifier, return/drawdown calculator and the alignment/conditioning   *)
(* loop of backtest_monthly_quarterly, modelled as a sequential program.   *)
(*                                                                         *)
(* Numbers.  Indicator values and price levels are naturals; a missing     *)
(* value (pandas NaN) is the integer NaN.  Percentiles are exact fractions *)
(* <<num, den>> in lowest terms with den > 0; the missing fraction is      *)
(* NaNF = <<0, 0>>.  Returns, cumulative growth, drawdowns and their means *)
(* and minima are float64 values, computed with IEEE 754 rounding after    *)
(* every operation as pandas computes them; the missing one is F64NaN.     *)
(* A pandas Series is a sequence of values; its index is a strictly        *)
(* increasing sequence of timestamps (month numbers) kept beside it.       *)
(***************************************************************************)
EXTENDS Integers, Sequences, FiniteSets, TLC

VARIABLES
  pc,              \* position of the running function
  err,             \* "" or the name of the exception that ended the run
  window,          \* rolling window W (argument `window`)
  series, p,       \* rolling_percentile: its input series and percentile p
  pos, roll_out,   \* rolling_percentile: positions done, results so far
  ind,             \* indicator table: [index, VIX_RATIO, HY_IG_SPREAD]
  etf,             \* instrument price table: [index, cols]
  quad,            \* classify_quadrant's DataFrame
  ret_m, dd_m,     \* returns (after dropna(how="all")) and running drawdown
  max_dd_m,        \* per-column worst drawdown
  quad_aligned,    \* quad.reindex(ret_m.index).ffill()
  todo,            \* labels the by-quadrant loop still has to visit
  monthly_by_quad, \* rows appended by the monthly loop
  quad_q,          \* classify_quadrant on the quarterly indicators
  ret_q, dd_q,     \* quarterly returns (after dropna) and drawdown
  quad_q_aligned,  \* quad_q.reindex(ret_q.index).ffill()
  quarterly_by_quad, \* rows appended by the quarterly loop
  clock,           \* the wall clock datetime.now() reads
  result,          \* the dictionary backtest_monthly_quarterly returns
  previous,        \* the dictionary an earlier invocation returned
  avg_ret_series,  \* fav_unfav: mean return per instrument
  avg_dd_series,   \* fav_unfav: mean drawdown per instrument
  breadth,         \* fav_unfav: its argument n
  ties,            \* the order the platform's sort leaves equal values in
  fav,             \* fav_unfav: the four lists it returns
  current,         \* what current_regime returns
  tickers,         \* fetch_sector_etfs: tickers its outer loop has yet to visit
  attempt,         \* fetch_sector_etfs: `attempt` of the inner loop
  data,            \* fetch_sector_etfs: the tickers in the mapping `data`
  history,         \* fetch_sector_etfs called on its own: the outcome of
                   \* every history() call so far
  entry,           \* the entry point running: "", "run" or "run_backtest"
  data_dir,        \* config.DATA_DIR: whether it exists, and its files
  outputs_dir,     \* config.OUTPUTS_DIR: whether it exists, and its files
  df_fred          \* run: the daily indicator frame

vars == <<pc, err, window, series, p, pos, roll_out, ind, etf, quad,
          ret_m, dd_m, max_dd_m, quad_aligned, todo, monthly_by_quad,
          quad_q, ret_q, dd_q, quad_q_aligned, quarterly_by_quad,
          clock, result, previous, avg_ret_series, avg_dd_series, breadth,
          ties, fav, current, tickers, attempt, data, history,
          entry, data_dir, outputs_dir, df_fred>>

rollVars == <<series, p, pos, roll_out>>
tableVars == <<ind, etf>>
monthlyVars == <<quad, ret_m, dd_m, max_dd_m, quad_aligned, monthly_by_quad>>
quarterlyVars == <<quad_q, ret_q, dd_q, quad_q_aligned, quarterly_by_quad>>
backtestVars == <<monthlyVars, quarterlyVars, todo>>
resultVars == <<clock, result, previous>>
rankVars == <<avg_ret_series, avg_dd_series, breadth, fav>>
fetchVars == <<tickers, attempt, data, history>>
runVars == <<entry, data_dir, outputs_dir, df_fred>>
sideVars == <<rankVars, ties, current, fetchVars, runVars>>

-----------------------------------------------------------------------------
(* Bounds of the model.                                                    *)
MaxLen == 4        \* longest series given to rolling_percentile
MaxVal == 3        \* largest indicator value
MaxWindow == 4     \* largest rolling window

(* The missing value of an integer-valued series.                          *)
NaN == -1

-----------------------------------------------------------------------------
(* Exact fractions.                                                        *)
NaNF == <<0, 0>>

IsNaNF(f) == f[2] = 0

Abs(n) == IF n < 0 THEN -n ELSE n

RECURSIVE GCD(_, _)
GCD(a, b) == IF b = 0 THEN a ELSE GCD(b, a % b)

Frac(n, d) ==
  IF d = 0 THEN NaNF
  ELSE LET g == GCD(Abs(n), Abs(d))
           s == IF d < 0 THEN -1 ELSE 1
       IN  <<(s * n) \div g, (s * d) \div g>>

FromInt(v) == IF v = NaN THEN NaNF ELSE <<v, 1>>

FAdd(a, b) == IF IsNaNF(a) \/ IsNaNF(b) THEN NaNF
              ELSE Frac(a[1] * b[2] + b[1] * a[2], a[2] * b[2])
FMul(a, b) == IF IsNaNF(a) \/ IsNaNF(b) THEN NaNF
              ELSE Frac(a[1] * b[1], a[2] * b[2])
(* Comparisons with a missing operand are False, as IEEE/pandas compare.   *)
FGE(a, b) == ~IsNaNF(a) /\ ~IsNaNF(b) /\ a[1] * b[2] >= b[1] * a[2]

-----------------------------------------------------------------------------
(* Sequence helpers.                                                       *)
Range(s) == {s[i] : i \in 1..Len(s)}

Min2(a, b) == IF a < b THEN a ELSE b
Max2(a, b) == IF a > b THEN a ELSE b

(* Series.dropna(): the non-missing values, order kept.                    *)
DropNa(x) == SelectSeq(x, LAMBDA v : v # NaN)

(* Insert v into the ascending sequence s.                                 *)
RECURSIVE Insert(_, _)
Insert(v, s) ==
  IF s = <<>> THEN <<v>>
  ELSE IF v <= Head(s) THEN <<v>> \o s
  ELSE <<Head(s)>> \o Insert(v, Tail(s))

(* The values of x in ascending order (numpy sorts inside percentile).     *)
RECURSIVE SortAsc(_)
SortAsc(x) == IF x = <<>> THEN <<>> ELSE Insert(Head(x), SortAsc(Tail(x)))

-----------------------------------------------------------------------------
(* Natural numbers of any size, for the significands of float64 values:    *)
(* digits base Radix, least significant first, no leading zero digit; zero *)
(* is <<>>.  The number is a[1] + a[2] * Radix + a[3] * Radix^2 + ...      *)
DigitBits == 15
Radix == 2^DigitBits

Digit(a, i) == IF i <= Len(a) THEN a[i] ELSE 0

RECURSIVE BigTrim(_)
BigTrim(a) ==
  IF a = <<>> \/ a[Len(a)] # 0 THEN a ELSE BigTrim(SubSeq(a, 1, Len(a) - 1))

RECURSIVE BigFromNat(_)
BigFromNat(n) == IF n = 0 THEN <<>> ELSE <<n % Radix>> \o BigFromNat(n \div Radix)

RECURSIVE BigAddFrom(_, _, _, _)
BigAddFrom(a, b, i, carry) ==
  IF i > Len(a) /\ i > Len(b)
  THEN IF carry = 0 THEN <<>> ELSE <<carry>>
  ELSE LET s == Digit(a, i) + Digit(b, i) + carry
       IN  <<s % Radix>> \o BigAddFrom(a, b, i + 1, s \div Radix)

BigAdd(a, b) == BigAddFrom(a, b, 1, 0)

(* a - b, for a >= b.                                                      *)
RECURSIVE BigSubFrom(_, _, _, _)
BigSubFrom(a, b, i, borrow) ==
  IF i > Len(a) THEN <<>>
  ELSE LET s == a[i] - Digit(b, i) - borrow
       IN  IF s < 0 THEN <<s + Radix>> \o BigSubFrom(a, b, i + 1, 1)
           ELSE <<s>> \o BigSubFrom(a, b, i + 1, 0)

BigSub(a, b) == BigTrim(BigSubFrom(a, b, 1, 0))

(* -1, 0 or 1 as a is below, equal to or above b.                          *)
RECURSIVE BigCmpFrom(_, _, _)
BigCmpFrom(a, b, i) ==
  IF i = 0 THEN 0
  ELSE IF a[i] # b[i] THEN (IF a[i] < b[i] THEN -1 ELSE 1)
  ELSE BigCmpFrom(a, b, i - 1)

BigCmp(a, b) ==
  IF Len(a) # Len(b) THEN (IF Len(a) < Len(b) THEN -1 ELSE 1)
  ELSE BigCmpFrom(a, b, Len(a))

(* a * k for one digit k.                                                  *)
RECURSIVE BigMulDigitFrom(_, _, _, _)
BigMulDigitFrom(a, k, i, carry) ==
  IF i > Len(a) THEN IF carry = 0 THEN <<>> ELSE <<carry>>
  ELSE LET prod == a[i] * k + carry
       IN  <<prod % Radix>> \o BigMulDigitFrom(a, k, i + 1, prod \div Radix)

BigMulDigit(a, k) == IF k = 0 THEN <<>> ELSE BigMulDigitFrom(a, k, 1, 0)

(* a * Radix^n                                                             *)
BigShiftDigits(a, n) == IF a = <<>> THEN <<>> ELSE [i \in 1..n |-> 0] \o a

RECURSIVE BigMul(_, _)
BigMul(a, b) ==
  IF b = <<>> THEN <<>>
  ELSE BigAdd(BigMulDigit(a, Head(b)), BigShiftDigits(BigMul(a, Tail(b)), 1))

(* a * 2^n                                                                 *)
BigShl(a, n) ==
  IF n = 0 THEN a
  ELSE BigShiftDigits(BigMulDigit(a, 2^(n % DigitBits)), n \div DigitBits)

(* Quotient and remainder of a by one digit k, digits i down to 1.         *)
RECURSIVE BigDivDigitFrom(_, _, _, _)
BigDivDigitFrom(a, k, i, rem) ==
  IF i = 0 THEN [quot |-> <<>>, rem |-> rem]
  ELSE LET cur  == rem * Radix + a[i]
           rest == BigDivDigitFrom(a, k, i - 1, cur % k)
       IN  [quot |-> Append(rest.quot, cur \div k), rem |-> rest.rem]

BigDivDigit(a, k) ==
  LET r == BigDivDigitFrom(a, k, Len(a), 0)
  IN  [quot |-> BigTrim(r.quot), rem |-> BigFromNat(r.rem)]

(* floor(a / 2^n)                                                          *)
BigShr(a, n) ==
  BigDivDigit(SubSeq(a, (n \div DigitBits) + 1, Len(a)), 2^(n % DigitBits)).quot

(* The largest digit q, at or below the estimate, with b * q <= rem.       *)
RECURSIVE BigFitDigit(_, _, _)
BigFitDigit(rem, b, q) ==
  IF BigCmp(BigMulDigit(b, q), rem) > 0 THEN BigFitDigit(rem, b, q - 1) ELSE q

(* Quotient and remainder of a by b, digits i down to 1 of a, for b of two *)
(* digits or more whose top digit is Radix / 2 or more: each digit of the  *)
(* quotient is estimated from the two leading digits of the running        *)
(* remainder cur and then fitted.                                          *)
RECURSIVE BigLongDiv(_, _, _, _)
RECURSIVE BigLongStep(_, _, _, _)
RECURSIVE BigLongPut(_, _, _, _, _)
BigLongPut(a, b, i, cur, q) ==
  LET rest == BigLongDiv(a, b, i - 1, BigSub(cur, BigMulDigit(b, q)))
  IN  [quot |-> Append(rest.quot, q), rem |-> rest.rem]

BigLongStep(a, b, i, cur) ==
  BigLongPut(a, b, i, cur,
    BigFitDigit(cur, b,
      Min2((Digit(cur, Len(b) + 1) * Radix + Digit(cur, Len(b))) \div b[Len(b)],
           Radix - 1)))

BigLongDiv(a, b, i, rem) ==
  IF i = 0 THEN [quot |-> <<>>, rem |-> rem]
  ELSE BigLongStep(a, b, i, BigTrim(<<a[i]>> \o rem))

RECURSIVE BitLenOf(_)
BitLenOf(n) == IF n = 0 THEN 0 ELSE 1 + BitLenOf(n \div 2)

BigBitLen(a) ==
  IF a = <<>> THEN 0 ELSE DigitBits * (Len(a) - 1) + BitLenOf(a[Len(a)])

(* Quotient and remainder of a by b, for b > 0; a longer b is first        *)
(* shifted by s bits, with a, to bring its top digit to Radix / 2 or more. *)
BigLongQuot(r, s) == [quot |-> BigTrim(r.quot), rem |-> BigShr(r.rem, s)]

BigLongDivOf(a, b, s) == BigLongQuot(BigLongDiv(a, b, Len(a), <<>>), s)

BigDivMod(a, b) ==
  IF Len(b) = 1 THEN BigDivDigit(a, b[1])
  ELSE BigLongDivOf(BigShl(a, DigitBits - BitLenOf(b[Len(b)])),
                    BigShl(b, DigitBits - BitLenOf(b[Len(b)])),
                    DigitBits - BitLenOf(b[Len(b)]))

(* Bit j of a, the lowest being bit 0.                                     *)
BigBit(a, j) == (Digit(a, (j \div DigitBits) + 1) \div 2^(j % DigitBits)) % 2

(* The number of zero bits below the lowest set bit, for a > 0.            *)
RECURSIVE TrailingZerosOf(_)
TrailingZerosOf(n) == IF n % 2 = 1 THEN 0 ELSE 1 + TrailingZerosOf(n \div 2)

RECURSIVE BigTrailingZeros(_)
BigTrailingZeros(a) ==
  IF a[1] = 0 THEN DigitBits + BigTrailingZeros(Tail(a))
  ELSE TrailingZerosOf(a[1])

-----------------------------------------------------------------------------
(* float64, the dtype of the return, growth and drawdown columns (IEEE 754 *)
(* binary64, round to nearest, ties to even).  A finite value is the       *)
(* record [nan |-> FALSE, neg, man, exp] standing for                      *)
(*     (IF neg THEN -1 ELSE 1) * man * 2^exp                               *)
(* with man a natural number below 2^53 in the digits above, odd unless    *)
(* the value is zero, so that equal values are equal records.  Prices are  *)
(* positive and of moderate size: infinities, the sign of zero and the     *)
(* limits of the exponent play no part and are not represented.            *)
Precision == 53

F64NaN == [nan |-> TRUE, neg |-> FALSE, man |-> <<>>, exp |-> 0]
F64Zero == [nan |-> FALSE, neg |-> FALSE, man |-> <<>>, exp |-> 0]

IsNan(x) == x.nan

(* The value man * 2^exp, for man below 2^53.                              *)
F64Exact(neg, man, exp) ==
  IF man = <<>> THEN F64Zero
  ELSE IF man[1] % 2 = 1 THEN [nan |-> FALSE, neg |-> neg, man |-> man, exp |-> exp]
  ELSE LET z == BigTrailingZeros(man)
       IN  [nan |-> FALSE, neg |-> neg, man |-> BigShr(man, z), exp |-> exp + z]

(* Dropping the low s bits of man rounds up when they are above half, or  *)
(* are half and either something sticky lies below them or the kept part   *)
(* is odd.                                                                 *)
RoundsUp(man, s, sticky) ==
  /\ BigBit(man, s - 1) = 1
  /\ (sticky \/ BigTrailingZeros(man) < s - 1 \/ BigBit(man, s) = 1)

F64RoundOff(neg, man, exp, sticky, s) ==
  F64Exact(neg,
           IF RoundsUp(man, s, sticky) THEN BigAdd(BigShr(man, s), <<1>>)
           ELSE BigShr(man, s),
           exp + s)

(* The float64 nearest to (man + f) * 2^exp, where f = 0 unless sticky and *)
(* 0 < f < 1 when sticky; a sticky man has more than Precision bits.       *)
F64Round(neg, man, exp, sticky) ==
  IF BigBitLen(man) <= Precision THEN F64Exact(neg, man, exp)
  ELSE F64RoundOff(neg, man, exp, sticky, BigBitLen(man) - Precision)

(* An integer as float64.                                                  *)
F64Int(n) == F64Exact(n < 0, BigFromNat(Abs(n)), 0)

F64One == F64Int(1)

(* A price level as float64 (NaN where the level is missing).              *)
F64Level(v) == IF v = NaN THEN F64NaN ELSE F64Int(v)

F64Neg(a) == IF a.nan \/ a.man = <<>> THEN a ELSE [a EXCEPT !.neg = ~@]

(* x * 2^e + y * 2^e with the signs given.                                 *)
SignedSum(xneg, x, yneg, y, e) ==
  IF xneg = yneg THEN [neg |-> xneg, man |-> BigAdd(x, y), exp |-> e]
  ELSE IF BigCmp(x, y) >= 0 THEN [neg |-> xneg, man |-> BigSub(x, y), exp |-> e]
  ELSE [neg |-> yneg, man |-> BigSub(y, x), exp |-> e]

(* a + b before rounding, for finite a and b.                              *)
F64Sum(a, b) ==
  SignedSum(a.neg, BigShl(a.man, a.exp - Min2(a.exp, b.exp)),
            b.neg, BigShl(b.man, b.exp - Min2(a.exp, b.exp)),
            Min2(a.exp, b.exp))

F64Rounded(s) == F64Round(s.neg, s.man, s.exp, FALSE)

F64Add(a, b) ==
  IF a.nan \/ b.nan THEN F64NaN
  ELSE IF a.man = <<>> THEN b
  ELSE IF b.man = <<>> THEN a
  ELSE F64Rounded(F64Sum(a, b))

F64Sub(a, b) == F64Add(a, F64Neg(b))

F64Mul(a, b) ==
  IF a.nan \/ b.nan THEN F64NaN
  ELSE IF a = F64One THEN b
  ELSE IF b = F64One THEN a
  ELSE F64Round(a.neg # b.neg, BigMul(a.man, b.man), a.exp + b.exp, FALSE)

(* a / b for b # 0.  Where b's significand does not divide a's, the        *)
(* quotient is taken to Precision + 2 bits or more (a's significand        *)
(* shifted by k bits), the remainder making it sticky.                     *)
F64Quotient(neg, dm, exp) == F64Round(neg, dm.quot, exp, dm.rem # <<>>)

F64DivTo(a, b, k) ==
  F64Quotient(a.neg # b.neg, BigDivMod(BigShl(a.man, k), b.man), a.exp - b.exp - k)

F64DivFrom(a, b, whole) ==
  IF whole.rem = <<>> THEN F64Exact(a.neg # b.neg, whole.quot, a.exp - b.exp)
  ELSE F64DivTo(a, b, Max2(0, BigBitLen(b.man) + Precision + 2 - BigBitLen(a.man)))

F64Div(a, b) ==
  IF a.nan \/ b.nan \/ b.man = <<>> THEN F64NaN
  ELSE IF a.man = <<>> THEN F64Zero
  ELSE F64DivFrom(a, b, BigDivMod(a.man, b.man))

(* Comparisons with a missing operand are False, as IEEE/pandas compare.   *)
IsNegative(s) == s.neg /\ s.man # <<>>

F64Less(a, b) ==
  /\ ~a.nan /\ ~b.nan /\ a # b
  /\ IF a.neg # b.neg THEN a.neg ELSE IsNegative(F64Sum(a, F64Neg(b)))

F64GE(a, b) == ~a.nan /\ ~b.nan /\ ~F64Less(a, b)

-----------------------------------------------------------------------------
(* rolling_percentile (backtest.py 59-63).                                 *)

(* np.nanpercentile(a, p), method "linear": virtual index (n-1)*p/100,     *)
(* interpolate between the two neighbouring order statistics.              *)
NanPercentile(a, pp) ==
  LET v == SortAsc(DropNa(a))
      n == Len(v)
  IN  IF n = 0 THEN NaNF
      ELSE LET k   == (n - 1) * pp
               lo  == k \div 100
               rem == k % 100
               hi  == Min2(lo + 1, n - 1)
           IN  Frac(100 * v[lo + 1] + rem * (v[hi + 1] - v[lo + 1]), 100)

(* min_periods=max(1, window // 2)                                         *)
MinPeriods(w) == Max2(1, w \div 2)

(* The fixed window of position i (1-based): rows start+1 .. i, that is    *)
(* pandas' start = max(end - window, 0), end = i.                          *)
(* Faulty variant: a window one row too long.                              *)
WindowStartWide(i, w) == Max2(i - w - 1, 0)
WindowStart(i, w) == Max2(i - w, 0)

WindowOf(x, i, w) == SubSeq(x, WindowStart(i, w) + 1, i)

(* roll_apply's counts: the number of finite (non-missing) values.         *)
(* Faulty variant: a count of the rows, missing ones included.             *)
CountRows(x) == Len(x)
CountValid(x) == Len(DropNa(x))

(* The lambda handed to apply: np.nanpercentile(x.dropna(), p).            *)
PercentileOfWindow(x, pp) == NanPercentile(DropNa(x), pp)

(* The result at one position of series.rolling(w, min_periods).apply(f).  *)
RollAt(x, w, pp, i) ==
  LET win == WindowOf(x, i, w)
  IN  IF CountValid(win) >= MinPeriods(w)
      THEN PercentileOfWindow(win, pp)
      ELSE NaNF

RollingPercentile(x, w, pp) == [i \in 1..Len(x) |-> RollAt(x, w, pp, i)]

-----------------------------------------------------------------------------
(* classify_quadrant (backtest.py 66-86).                                  *)

(* series >= threshold, element by element; False where either is missing. *)
(* Faulty variant: a strict comparison.                                    *)
StrictlyAbove(v, m) == FGE(FromInt(v), m) /\ FromInt(v) # m
AtOrAbove(v, m) == FGE(FromInt(v), m)

(* .map({True: "High", False: "Low"}) and .map({True: "Tight", False: "Easy"}) *)
VixClassOf(b) == IF b THEN "High" ELSE "Low"
HyClassOf(b) == IF b THEN "Tight" ELSE "Easy"

(* vix_class + "_" + hy_class                                              *)
QuadName(vc, hc) ==
  CASE vc = "Low"  /\ hc = "Easy"  -> "Low_Easy"
    [] vc = "Low"  /\ hc = "Tight" -> "Low_Tight"
    [] vc = "High" /\ hc = "Easy"  -> "High_Easy"
    [] vc = "High" /\ hc = "Tight" -> "High_Tight"

(* vix_class + " VIX, " + hy_class + " credit"                             *)
QuadLabel(vc, hc) ==
  CASE vc = "Low"  /\ hc = "Easy"  -> "Low VIX, Easy credit"
    [] vc = "Low"  /\ hc = "Tight" -> "Low VIX, Tight credit"
    [] vc = "High" /\ hc = "Easy"  -> "High VIX, Easy credit"
    [] vc = "High" /\ hc = "Tight" -> "High VIX, Tight credit"

ClassifyQuadrant(index, vix_ratio, hy_ig, w) ==
  LET vix_p50   == RollingPercentile(vix_ratio, w, 50)
      hy_p50    == RollingPercentile(hy_ig, w, 50)
      vix_class == [i \in 1..Len(vix_ratio) |->
                      VixClassOf(AtOrAbove(vix_ratio[i], vix_p50[i]))]
      hy_class  == [i \in 1..Len(hy_ig) |->
                      HyClassOf(AtOrAbove(hy_ig[i], hy_p50[i]))]
  IN  [index         |-> index,
       VIX_ratio     |-> vix_ratio,
       HY_IG_spread  |-> hy_ig,
       VIX_class     |-> vix_class,
       HYIG_class    |-> hy_class,
       Quadrant      |-> [i \in 1..Len(index) |-> QuadName(vix_class[i], hy_class[i])],
       QuadrantLabel |-> [i \in 1..Len(index) |-> QuadLabel(vix_class[i], hy_class[i])]]

-----------------------------------------------------------------------------
(* returns_and_drawdown (backtest.py 89-99), one price column at a time.   *)
(* Levels are missing only before an instrument's first quote (the tables  *)
(* fetch_data.py builds: each ticker's Close with dropna, resampled), so   *)
(* pct_change's fill of interior gaps plays no part.                       *)

(* prices.pct_change(): data / data.shift(1) - 1, in float64.              *)
PctChange(px) ==
  [i \in 1..Len(px) |->
     IF i = 1 \/ px[i] = NaN \/ px[i - 1] = NaN THEN F64NaN
     ELSE F64Sub(F64Div(F64Level(px[i]), F64Level(px[i - 1])), F64One)]

(* The product of the non-missing values among x[1..i] (cumprod skips NaN), *)
(* taken from the left, each product rounded.                              *)
RECURSIVE ProdUpTo(_, _)
ProdUpTo(x, i) ==
  IF i = 0 THEN F64One
  ELSE IF IsNan(x[i]) THEN ProdUpTo(x, i - 1)
  ELSE F64Mul(ProdUpTo(x, i - 1), x[i])

(* (1 + ret).cumprod()                                                     *)
CumProd(g) ==
  [i \in 1..Len(g) |-> IF IsNan(g[i]) THEN F64NaN ELSE ProdUpTo(g, i)]

CumGrowth(ret) == CumProd([i \in 1..Len(ret) |-> F64Add(F64One, ret[i])])

(* The largest non-missing value among x[1..i], missing when there is none. *)
RECURSIVE MaxUpTo(_, _)
MaxUpTo(x, i) ==
  IF i = 0 THEN F64NaN
  ELSE LET m == MaxUpTo(x, i - 1)
       IN  IF IsNan(x[i]) THEN m
           ELSE IF IsNan(m) \/ F64GE(x[i], m) THEN x[i] ELSE m

(* cum.expanding().max()                                                   *)
(* Faulty variant: the peak of the rows before the current one.            *)
PriorMax(cum) == [i \in 1..Len(cum) |-> MaxUpTo(cum, i - 1)]
ExpandingMax(cum) == [i \in 1..Len(cum) |-> MaxUpTo(cum, i)]

(* dd = (cum - peak) / peak                                                *)
DrawdownFrom(cum, peak) ==
  [i \in 1..Len(cum) |-> F64Div(F64Sub(cum[i], peak[i]), peak[i])]

DrawdownOf(cum) == DrawdownFrom(cum, ExpandingMax(cum))

Drawdown(px) == DrawdownOf(CumGrowth(PctChange(px)))

(* Series.min(), Series.mean(): missing values skipped, missing if none;   *)
(* the mean is the sum taken from the top row down, divided by the count.  *)
RECURSIVE MinUpTo(_, _)
MinUpTo(x, i) ==
  IF i = 0 THEN F64NaN
  ELSE LET m == MinUpTo(x, i - 1)
       IN  IF IsNan(x[i]) THEN m
           ELSE IF IsNan(m) \/ F64Less(x[i], m) THEN x[i] ELSE m

ColMin(x) == MinUpTo(x, Len(x))

RECURSIVE SumUpTo(_, _)
SumUpTo(x, i) ==
  IF i = 0 THEN F64Zero
  ELSE IF IsNan(x[i]) THEN SumUpTo(x, i - 1)
  ELSE F64Add(SumUpTo(x, i - 1), x[i])

ColMean(x) ==
  LET n == Len(SelectSeq(x, LAMBDA f : ~IsNan(f)))
  IN  IF n = 0 THEN F64NaN ELSE F64Div(SumUpTo(x, Len(x)), F64Int(n))

-----------------------------------------------------------------------------
(* Tables.  A frame is a record: index (timestamps, ascending) and its     *)
(* columns; the price and return frames keep their columns under cols.     *)
Instruments == {"XLK", "XLF"}

(* The tickers in the order config.SECTOR_ETFS lists them (the first       *)
(* three): the column order of the price table and of every dictionary of  *)
(* per-instrument statistics.                                              *)
SectorOrder == <<"XLK", "XLF", "XLV">>

NaS == "NaN"     \* the missing value of a text column

(* The rows (positions, ascending) of an n-row frame that lie in keep.     *)
RowsWhere(n, keep) == SelectSeq([i \in 1..n |-> i], LAMBDA i : i \in keep)

(* The values of x at the given rows.                                      *)
Take(x, rows) == [k \in 1..Len(rows) |-> x[rows[k]]]

(* The position of timestamp t in index, 0 when absent.                    *)
PosOf(index, t) ==
  IF \E j \in 1..Len(index) : index[j] = t
  THEN CHOOSE j \in 1..Len(index) : index[j] = t
  ELSE 0

(* Index.intersection                                                      *)
Intersection(a, b) == SelectSeq(a, LAMBDA t : t \in Range(b))

(* Series.reindex(new_index): exact matches only, missing elsewhere.       *)
Reindex(col, index, new_index, missing) ==
  [k \in 1..Len(new_index) |->
     IF PosOf(index, new_index[k]) = 0 THEN missing
     ELSE col[PosOf(index, new_index[k])]]

(* Series.ffill(): the last non-missing value at or before each row.       *)
RECURSIVE FfillAt(_, _, _)
FfillAt(col, k, missing) ==
  IF k = 0 THEN missing
  ELSE IF col[k] # missing THEN col[k]
  ELSE FfillAt(col, k - 1, missing)

Ffill(col, missing) == [k \in 1..Len(col) |-> FfillAt(col, k, missing)]

(* Series.dropna().unique(): the values in order of first appearance.      *)
RECURSIVE Unique(_)
Unique(x) ==
  IF x = <<>> THEN <<>>
  ELSE LET r == Unique(SubSeq(x, 1, Len(x) - 1))
       IN  IF x[Len(x)] \in Range(r) THEN r ELSE Append(r, x[Len(x)])

(* returns_and_drawdown on a price frame: ret, dd, max_dd.                 *)
ReturnedFrames(index, ret, dd) ==
  [ret    |-> [index |-> index, cols |-> ret],
   dd     |-> [index |-> index, cols |-> dd],
   max_dd |-> [c \in DOMAIN dd |-> ColMin(dd[c])]]

ReturnsAndDrawdown(prices) ==
  ReturnedFrames(prices.index,
                 [c \in DOMAIN prices.cols |-> PctChange(prices.cols[c])],
                 [c \in DOMAIN prices.cols |-> Drawdown(prices.cols[c])])

(* DataFrame.dropna(how="all"): drop the rows missing in every column.     *)
DropNaAll(frame) ==
  LET rows == RowsWhere(Len(frame.index),
                {i \in 1..Len(frame.index) :
                   \E c \in DOMAIN frame.cols : ~IsNan(frame.cols[c][i])})
  IN  [index |-> Take(frame.index, rows),
       cols  |-> [c \in DOMAIN frame.cols |-> Take(frame.cols[c], rows)]]

(* quad.reindex(new_index).ffill(), column by column.                      *)
AlignQuad(q, new_index) ==
  LET col(x, missing) == Ffill(Reindex(x, q.index, new_index, missing), missing)
  IN  [index         |-> new_index,
       VIX_ratio     |-> col(q.VIX_ratio, NaN),
       HY_IG_spread  |-> col(q.HY_IG_spread, NaN),
       VIX_class     |-> col(q.VIX_class, NaS),
       HYIG_class    |-> col(q.HYIG_class, NaS),
       Quadrant      |-> col(q.Quadrant, NaS),
       QuadrantLabel |-> col(q.QuadrantLabel, NaS)]

(* frame.loc[mask] with a boolean Series: pandas' check_bool_indexer       *)
(* aligns the mask to the frame's index and raises IndexingError when a    *)
(* label of the frame is absent from the mask's index.                     *)
Unalignable(frame_index, mask_index) ==
  /\ frame_index # mask_index
  /\ \E i \in 1..Len(frame_index) : PosOf(mask_index, frame_index[i]) = 0

MaskRows(frame_index, mask_index, mask) ==
  RowsWhere(Len(frame_index),
    {i \in 1..Len(frame_index) :
       /\ PosOf(mask_index, frame_index[i]) # 0
       /\ mask[PosOf(mask_index, frame_index[i])]})

-----------------------------------------------------------------------------
(* State no run uses: empty tables and results.                            *)
NoFrame == [index |-> <<>>]

RollIdle == series = <<>> /\ p = 50 /\ pos = 0 /\ roll_out = <<>>
TablesIdle == ind = NoFrame /\ etf = NoFrame
BacktestIdle ==
  /\ quad = NoFrame /\ ret_m = NoFrame /\ dd_m = NoFrame /\ max_dd_m = <<>>
  /\ quad_aligned = NoFrame /\ todo = <<>> /\ monthly_by_quad = <<>>
  /\ quad_q = NoFrame /\ ret_q = NoFrame /\ dd_q = NoFrame
  /\ quad_q_aligned = NoFrame /\ quarterly_by_quad = <<>>

NoResult == [returned |-> FALSE]     \* nothing returned (yet)
None == [none |-> TRUE]              \* Python's None

ResultIdle == clock = 0 /\ result = NoResult /\ previous = NoResult
RankIdle ==
  avg_ret_series = <<>> /\ avg_dd_series = <<>> /\ breadth = 0 /\ fav = NoResult
FetchIdle == tickers = <<>> /\ attempt = 0 /\ data = {} /\ history = <<>>

(* A file that is absent, and one pd.read_csv cannot parse.                *)
NoFile == [exists |-> FALSE]
Unreadable == [readable |-> FALSE]

(* config.DATA_DIR and config.OUTPUTS_DIR with none of the files the       *)
(* program writes.                                                         *)
EmptyDataDir(there) ==
  [exists                |-> there,
   indicators_daily      |-> NoFile,
   sector_etfs_daily     |-> NoFile,
   indicators_monthly    |-> NoFile,
   indicators_quarterly  |-> NoFile,
   sector_etfs_monthly   |-> NoFile,
   sector_etfs_quarterly |-> NoFile,
   meta                  |-> NoFile]

EmptyOutputsDir(there) ==
  [exists                   |-> there,
   backtest_results         |-> NoFile,
   quadrant_history_monthly |-> NoFile]

RunIdle ==
  /\ entry = ""
  /\ data_dir = EmptyDataDir(FALSE)
  /\ outputs_dir = EmptyOutputsDir(FALSE)
  /\ df_fred = NoFrame
(* A stable sort: equal values stay in dictionary order.                   *)
SideIdle ==
  /\ RankIdle /\ ties = SectorOrder /\ current = NoResult /\ FetchIdle
  /\ RunIdle

-----------------------------------------------------------------------------
(* rolling_percentile run on its own: every series of at most MaxLen       *)
(* values (missing ones included), every window and percentile.            *)
Values == 1..MaxVal
Windows == 1..MaxWindow
Percentiles == {0, 25, 50, 75, 100}

SeqsUpTo(S, n) == UNION {[1..k -> S] : k \in 1..n}

InitRoll ==
  /\ pc = "roll" /\ err = ""
  /\ window \in Windows
  /\ series \in SeqsUpTo(Values \cup {NaN}, MaxLen)
  /\ p \in Percentiles
  /\ pos = 0 /\ roll_out = <<>>
  /\ TablesIdle /\ BacktestIdle /\ SideIdle /\ ResultIdle

(* One iteration of roll_apply's loop over the positions of the series.    *)
RollStep ==
  /\ pc = "roll"
  /\ pos < Len(series)
  /\ roll_out' = Append(roll_out, RollAt(series, window, p, pos + 1))
  /\ pos' = pos + 1
  /\ pc' = IF pos + 1 = Len(series) THEN "rolled" ELSE "roll"
  /\ UNCHANGED <<err, window, series, p, tableVars, backtestVars>>
  /\ UNCHANGED <<sideVars, resultVars>>

NextRoll == RollStep

SpecRoll == InitRoll /\ [][NextRoll]_vars

-----------------------------------------------------------------------------
(* Quarterly tables (backtest.py 149-153).  Month 0 closes a quarter, so   *)
(* the quarters end at the months 0, 3, 6, ...; a quarterly row carries    *)
(* the timestamp of its quarter's end.                                     *)
QuarterEnd(t) == 3 * ((t + 2) \div 3)

(* The bins of resample("QE"): every quarter from the first row's to the   *)
(* last row's.                                                             *)
QuarterIndex(index) ==
  IF index = <<>> THEN <<>>
  ELSE LET first == QuarterEnd(index[1])
           n     == (QuarterEnd(index[Len(index)]) - first) \div 3 + 1
       IN  [k \in 1..n |-> first + 3 * (k - 1)]

(* .last(): the last non-missing value of the column among the rows 1..i   *)
(* that fall in the quarter ending at e, missing when there is none.       *)
RECURSIVE LastInQuarter(_, _, _, _, _)
LastInQuarter(col, index, e, i, missing) ==
  IF i = 0 THEN missing
  ELSE IF QuarterEnd(index[i]) = e /\ col[i] # missing THEN col[i]
  ELSE LastInQuarter(col, index, e, i - 1, missing)

ResampleLast(col, index, missing) ==
  LET qi == QuarterIndex(index)
  IN  [k \in 1..Len(qi) |-> LastInQuarter(col, index, qi[k], Len(index), missing)]

(* ind.resample("QE").last()                                               *)
ResampleIndicators(table) ==
  [index        |-> QuarterIndex(table.index),
   VIX_RATIO    |-> ResampleLast(table.VIX_RATIO, table.index, NaN),
   HY_IG_SPREAD |-> ResampleLast(table.HY_IG_SPREAD, table.index, NaN)]

(* etf.resample("QE").last()                                               *)
ResamplePrices(table) ==
  [index |-> QuarterIndex(table.index),
   cols  |-> [c \in DOMAIN table.cols |-> ResampleLast(table.cols[c], table.index, NaN)]]

(* max(4, window // 3)                                                     *)
(* Faulty variant: the monthly window, not rescaled to quarters.           *)
QuarterlyWindowUnscaled(w) == Max2(4, w)
QuarterlyWindow(w) == Max2(4, w \div 3)

-----------------------------------------------------------------------------
(* fav_unfav (backtest.py 174-184).  A dictionary of per-instrument        *)
(* statistics is a function on its keys, the keys kept in dictionary order *)
(* beside it.                                                              *)

(* pd.Series(d).dropna(): the keys with a defined statistic, order kept.   *)
Defined(keys, val) == SelectSeq(keys, LAMBDA k : ~IsNan(val[k]))

(* Whether key a is placed before key b by sort_values: by value in the    *)
(* given direction, equal values in the order the sort leaves them in.     *)
(* Faulty variant: the direction ignored, always ascending.                *)
PlacedBeforeAscending(a, b, val, ascending, order) ==
  \/ F64Less(val[a], val[b])
  \/ val[a] = val[b] /\ PosOf(order, a) < PosOf(order, b)
PlacedBefore(a, b, val, ascending, order) ==
  \/ IF ascending THEN F64Less(val[a], val[b]) ELSE F64Less(val[b], val[a])
  \/ val[a] = val[b] /\ PosOf(order, a) < PosOf(order, b)

(* Series.sort_values(ascending=...): the keys in sorted order.            *)
SortValues(keys, val, ascending, order) ==
  LET place(k) == 1 + Cardinality({j \in Range(keys) :
                                     PlacedBefore(j, k, val, ascending, order)})
  IN  [i \in 1..Len(keys) |-> CHOOSE k \in Range(keys) : place(k) = i]

(* .head(n) and .tail(n)                                                   *)
(* Faulty variant of head: one entry too many.                             *)
HeadWide(x, k) == SubSeq(x, 1, Min2(k + 1, Len(x)))
HeadN(x, k) == SubSeq(x, 1, Min2(k, Len(x)))
TailN(x, k) == SubSeq(x, Max2(Len(x) - k, 0) + 1, Len(x))

FavUnfav(keys, avg_ret, avg_dd, k, order) ==
  LET sr     == Defined(keys, avg_ret)
      sd     == Defined(keys, avg_dd)
      by_ret == SortValues(sr, avg_ret, FALSE, order)
      by_dd  == SortValues(sd, avg_dd, TRUE, order)
  IN  [favorite_by_return     |-> HeadN(by_ret, k),
       unfavorite_by_return   |-> TailN(by_ret, k),
       favorite_by_drawdown   |-> HeadN(by_dd, k),
       unfavorite_by_drawdown |-> TailN(by_dd, k)]

-----------------------------------------------------------------------------
(* backtest_monthly_quarterly (backtest.py 102-218), statement by          *)
(* statement.  A raised exception ends the run: pc = "raised".             *)

(* 107-109: quad = classify_quadrant(vix, hyig, window)                    *)
Classify ==
  /\ pc = "classify"
  /\ IF {"VIX_RATIO", "HY_IG_SPREAD"} \subseteq DOMAIN ind
     THEN /\ quad' = ClassifyQuadrant(ind.index, ind.VIX_RATIO, ind.HY_IG_SPREAD, window)
          /\ pc' = "returns"
          /\ err' = err
     ELSE \* ind["VIX_RATIO"] / ind["HY_IG_SPREAD"] raises
          /\ pc' = "raised"
          /\ err' = "KeyError"
          /\ quad' = quad
  /\ UNCHANGED <<window, rollVars, tableVars, ret_m, dd_m, max_dd_m,
                 quad_aligned, todo, monthly_by_quad, quarterlyVars>>
  /\ UNCHANGED <<sideVars, resultVars>>

(* 111-112: ret_m, dd_m, max_dd_m = returns_and_drawdown(etf);             *)
(*          ret_m = ret_m.dropna(how="all")                                *)
Returns ==
  /\ pc = "returns"
  /\ \E r \in {ReturnsAndDrawdown(etf)} :
       /\ ret_m' = DropNaAll(r.ret)
       /\ dd_m' = r.dd
       /\ max_dd_m' = r.max_dd
  /\ pc' = "align"
  /\ UNCHANGED <<err, window, rollVars, tableVars, quad, quad_aligned, todo,
                 monthly_by_quad, quarterlyVars>>
  /\ UNCHANGED <<sideVars, resultVars>>

(* 114-126: the overlap check, reindex + ffill, the all-missing check;     *)
(* 130: the labels the monthly loop visits.                                *)
Align ==
  /\ pc = "align"
  /\ LET common_index == Intersection(quad.index, ret_m.index)
         aligned      == AlignQuad(quad, ret_m.index)
         n_valid      == Len(SelectSeq(aligned.Quadrant, LAMBDA v : v # NaS))
     IN  IF common_index = <<>> \/ n_valid = 0
         THEN /\ pc' = "raised"
              /\ err' = "ValueError"
              /\ UNCHANGED <<quad_aligned, todo>>
         ELSE /\ quad_aligned' = aligned
              /\ todo' = Unique(SelectSeq(aligned.Quadrant, LAMBDA v : v # NaS))
              /\ pc' = "monthly"
              /\ err' = err
  /\ UNCHANGED <<window, rollVars, tableVars, quad, ret_m, dd_m, max_dd_m,
                 monthly_by_quad, quarterlyVars>>
  /\ UNCHANGED <<sideVars, resultVars>>

(* The row the loop body appends for label q (134-146), given the rows of  *)
(* the return frame and of the drawdown frame the mask selects.            *)
QuadRow(q, n, ret_frame, ret_rows, dd_frame, dd_rows) ==
  [quadrant     |-> q,
   n            |-> n,     \* "n_months" / "n_quarters"
   avg_return   |-> [c \in DOMAIN ret_frame.cols |-> ColMean(Take(ret_frame.cols[c], ret_rows))],
   avg_drawdown |-> [c \in DOMAIN dd_frame.cols |-> ColMean(Take(dd_frame.cols[c], dd_rows))],
   max_drawdown |-> [c \in DOMAIN dd_frame.cols |-> ColMin(Take(dd_frame.cols[c], dd_rows))]]

(* 130-146: one iteration of `for q in quad_aligned["Quadrant"]...`.       *)
MonthlyIter ==
  /\ pc = "monthly"
  /\ todo # <<>>
  /\ LET q    == Head(todo)
         mask == [k \in 1..Len(quad_aligned.index) |-> quad_aligned.Quadrant[k] = q]
         n    == Len(SelectSeq(mask, LAMBDA b : b))
     IN  IF n < 2
         THEN \* continue
              /\ todo' = Tail(todo)
              /\ pc' = IF Tail(todo) = <<>> THEN "resample" ELSE "monthly"
              /\ UNCHANGED <<err, monthly_by_quad>>
         ELSE IF Unalignable(dd_m.index, quad_aligned.index)
         THEN \* dd_q = dd_m.loc[mask] raises
              /\ pc' = "raised"
              /\ err' = "IndexingError"
              /\ UNCHANGED <<todo, monthly_by_quad>>
         ELSE /\ monthly_by_quad' =
                   Append(monthly_by_quad,
                     QuadRow(q, n,
                       ret_m, MaskRows(ret_m.index, quad_aligned.index, mask),
                       dd_m, MaskRows(dd_m.index, quad_aligned.index, mask)))
              /\ todo' = Tail(todo)
              /\ pc' = IF Tail(todo) = <<>> THEN "resample" ELSE "monthly"
              /\ err' = err
  /\ UNCHANGED <<window, rollVars, tableVars, quad, ret_m, dd_m, max_dd_m,
                 quad_aligned, quarterlyVars>>
  /\ UNCHANGED <<sideVars, resultVars>>

(* 149-156: the quarterly tables, classifier, returns and alignment;       *)
(* 159: the labels the quarterly loop visits.                              *)
QuarterlyTables(q, rq, dd, aligned) ==
  [quad_q |-> q, ret_q |-> rq, dd_q |-> dd, quad_q_aligned |-> aligned,
   labels |-> Unique(SelectSeq(aligned.Quadrant, LAMBDA v : v # NaS))]

QuarterlyAligned(q, rq, dd) == QuarterlyTables(q, rq, dd, AlignQuad(q, rq.index))

QuarterlyReturns(q, r) == QuarterlyAligned(q, DropNaAll(r.ret), r.dd)

QuarterlyQuadrant(ind_q, w) ==
  ClassifyQuadrant(ind_q.index, ind_q.VIX_RATIO, ind_q.HY_IG_SPREAD,
                   QuarterlyWindow(w))

QuarterlyStage(ind_m, etf_m, w) ==
  QuarterlyReturns(QuarterlyQuadrant(ResampleIndicators(ind_m), w),
                   ReturnsAndDrawdown(ResamplePrices(etf_m)))

Quarterly ==
  /\ pc = "resample"
  /\ \E out \in {QuarterlyStage(ind, etf, window)} :
       /\ quad_q' = out.quad_q
       /\ ret_q' = out.ret_q
       /\ dd_q' = out.dd_q
       /\ quad_q_aligned' = out.quad_q_aligned
       /\ todo' = out.labels
       /\ pc' = IF out.labels = <<>> THEN "rank" ELSE "quarterly"
  /\ UNCHANGED <<err, window, rollVars, tableVars, monthlyVars, quarterly_by_quad>>
  /\ UNCHANGED <<sideVars, resultVars>>

(* 159-171: one iteration of `for q in quad_q_aligned["Quadrant"]...`.     *)
QuarterlyIter ==
  /\ pc = "quarterly"
  /\ todo # <<>>
  /\ LET q    == Head(todo)
         mask == [k \in 1..Len(quad_q_aligned.index) |-> quad_q_aligned.Quadrant[k] = q]
         n    == Len(SelectSeq(mask, LAMBDA b : b))
     IN  IF n < 2
         THEN \* continue
              /\ todo' = Tail(todo)
              /\ pc' = IF Tail(todo) = <<>> THEN "rank" ELSE "quarterly"
              /\ UNCHANGED <<err, quarterly_by_quad>>
         ELSE IF Unalignable(dd_q.index, quad_q_aligned.index)
         THEN \* dq = dd_q.loc[mask] raises
              /\ pc' = "raised"
              /\ err' = "IndexingError"
              /\ UNCHANGED <<todo, quarterly_by_quad>>
         ELSE /\ quarterly_by_quad' =
                   Append(quarterly_by_quad,
                     QuadRow(q, n,
                       ret_q, MaskRows(ret_q.index, quad_q_aligned.index, mask),
                       dd_q, MaskRows(dd_q.index, quad_q_aligned.index, mask)))
              /\ todo' = Tail(todo)
              /\ pc' = IF Tail(todo) = <<>> THEN "rank" ELSE "quarterly"
              /\ err' = err
  /\ UNCHANGED <<window, rollVars, tableVars, monthlyVars, quad_q, ret_q, dd_q,
                 quad_q_aligned>>
  /\ UNCHANGED <<sideVars, resultVars>>

(* 186-192: n=4 at both calls of fav_unfav.                                *)
RankingBreadth == 4

(* 208: len(ind) >= 100                                                    *)
RealDataRows == 100

(* The instruments of the model, in the order of config.SECTOR_ETFS.       *)
RowKeys == SelectSeq(SectorOrder, LAMBDA k : k \in Instruments)

(* The keys of a dictionary of per-instrument values, in column order.     *)
ColumnKeys(of) == SelectSeq(SectorOrder, LAMBDA k : k \in DOMAIN of)

(* 186-192: {item["quadrant"]: fav_unfav(item["avg_return"],               *)
(*                                       item["avg_drawdown"], n=4)}       *)
FavByQuadrant(rows, order) ==
  [q \in {rows[r].quadrant : r \in 1..Len(rows)} |->
     LET last == CHOOSE r \in 1..Len(rows) :
                   /\ rows[r].quadrant = q
                   /\ \A r2 \in (r + 1)..Len(rows) : rows[r2].quadrant # q
     IN  FavUnfav(ColumnKeys(rows[last].avg_return),
                  rows[last].avg_return, rows[last].avg_drawdown,
                  RankingBreadth, order)]

(* 195-200: aligned.dropna(how="all").reset_index() with the dates as      *)
(* text, then to_dict(orient="records").                                   *)
QuadHistory(aligned) ==
  LET rows == RowsWhere(Len(aligned.index),
                {i \in 1..Len(aligned.index) :
                   \/ aligned.VIX_ratio[i] # NaN
                   \/ aligned.HY_IG_spread[i] # NaN
                   \/ aligned.VIX_class[i] # NaS
                   \/ aligned.HYIG_class[i] # NaS
                   \/ aligned.Quadrant[i] # NaS
                   \/ aligned.QuadrantLabel[i] # NaS})
  IN  [k \in 1..Len(rows) |->
         [date          |-> ToString(aligned.index[rows[k]]),
          VIX_ratio     |-> aligned.VIX_ratio[rows[k]],
          HY_IG_spread  |-> aligned.HY_IG_spread[rows[k]],
          VIX_class     |-> aligned.VIX_class[rows[k]],
          HYIG_class    |-> aligned.HYIG_class[rows[k]],
          Quadrant      |-> aligned.Quadrant[rows[k]],
          QuadrantLabel |-> aligned.QuadrantLabel[rows[k]]]]

(* 202: sum(item["n_months"] for item in monthly_by_quad)                  *)
RECURSIVE TotalMonths(_)
TotalMonths(rows) ==
  IF rows = <<>> THEN 0 ELSE Head(rows).n + TotalMonths(Tail(rows))

(* 203-218: the dictionary returned, generated_at read off the clock.      *)
BacktestResult(now, order) ==
  [metadata |->
     [generated_at |-> now,
      data_sources |-> "FRED + yfinance",
      data_range   |-> [start |-> ToString(ind.index[1]),
                        end   |-> ToString(ind.index[Len(ind.index)])],
      is_real_data |-> TotalMonths(monthly_by_quad) > 0
                         /\ Len(ind.index) >= RealDataRows],
   rolling_window_months         |-> window,
   monthly_by_quadrant           |-> monthly_by_quad,
   quarterly_by_quadrant         |-> quarterly_by_quad,
   monthly_favorite_unfavorite   |-> FavByQuadrant(monthly_by_quad, order),
   quarterly_favorite_unfavorite |-> FavByQuadrant(quarterly_by_quad, order),
   quadrant_history_monthly      |-> QuadHistory(quad_aligned),
   quadrant_history_quarterly    |-> QuadHistory(quad_q_aligned),
   indicators_monthly            |->
     [i \in 1..Len(ind.index) |->
        [date         |-> ToString(ind.index[i]),
         VIX_RATIO    |-> ind.VIX_RATIO[i],
         HY_IG_SPREAD |-> ind.HY_IG_SPREAD[i]]]]

(* 173-218: the rankings, the histories, and the return.                   *)
Finish ==
  /\ pc = "rank"
  /\ \E out \in {BacktestResult(clock, ties)} : result' = out
  /\ pc' = "done"
  /\ UNCHANGED <<err, window, rollVars, tableVars, backtestVars>>
  /\ UNCHANGED <<sideVars, clock, previous>>

-----------------------------------------------------------------------------
(* The inputs of a backtest run.                                           *)
MaxMonths == 3     \* timestamps are the months 0 .. MaxMonths-1
MaxInd == 2        \* indicator values of the backtest's tables
MaxLevel == 2      \* price levels of the backtest's tables

Months == 0..(MaxMonths - 1)

(* The ascending sequence of the timestamps in S.                          *)
RECURSIVE IndexOf(_)
IndexOf(S) ==
  IF S = {} THEN <<>>
  ELSE LET m == CHOOSE t \in S : \A u \in S : u <= t
       IN  Append(IndexOf(S \ {m}), m)

Indexes == {IndexOf(S) : S \in (SUBSET Months) \ {{}}}

(* Indicator tables over an index, every value drawn from vals.            *)
IndicatorTables(index, vals) ==
  {[index |-> index, VIX_RATIO |-> v, HY_IG_SPREAD |-> h] :
     v \in [1..Len(index) -> vals], h \in [1..Len(index) -> vals]}

Reverse(x) == [i \in 1..Len(x) |-> x[Len(x) + 1 - i]]

(* Price tables over an index: XLK quoted from the first row on; XLF, a    *)
(* later listing, missing in its first `lead` rows and quoted after.       *)
PriceTables(index, levels) ==
  {[index |-> index,
    cols  |-> [c \in Instruments |->
                 IF c = "XLK" THEN x
                 ELSE [i \in 1..Len(index) |->
                         IF i <= lead THEN NaN ELSE Reverse(x)[i]]]] :
     x \in [1..Len(index) -> levels], lead \in 0..(Len(index) - 1)}

BacktestWindows == {1, 2, 4}

Init ==
  /\ pc = "classify" /\ err = ""
  /\ window \in BacktestWindows
  /\ \E i \in Indexes : ind \in IndicatorTables(i, 1..MaxInd)
  /\ \E i \in Indexes : etf \in PriceTables(i, 1..MaxLevel)
  /\ RollIdle /\ BacktestIdle /\ SideIdle /\ ResultIdle

Next ==
  \/ Classify \/ Returns \/ Align \/ MonthlyIter
  \/ Quarterly \/ QuarterlyIter \/ Finish

Spec == Init /\ [][Next]_vars

-----------------------------------------------------------------------------
(* classify_quadrant run on its own: indicator tables over the months      *)
(* 0..n-1 with missing values allowed, every window.                       *)
InitClassify ==
  /\ pc = "classify" /\ err = ""
  /\ window \in Windows
  /\ \E n \in 1..MaxMonths :
       ind \in IndicatorTables(IndexOf(0..(n - 1)), (1..MaxInd) \cup {NaN})
  /\ etf = NoFrame
  /\ RollIdle /\ BacktestIdle /\ SideIdle /\ ResultIdle

NextClassify == Classify

SpecClassify == InitClassify /\ [][NextClassify]_vars

-----------------------------------------------------------------------------
(* returns_and_drawdown run on its own: price tables of up to MaxRows      *)
(* rows with levels up to MaxPrice.                                        *)
MaxRows == 4
MaxPrice == 3

InitReturns ==
  /\ pc = "returns" /\ err = ""
  /\ window = 1
  /\ ind = NoFrame
  /\ \E n \in 1..MaxRows : etf \in PriceTables(IndexOf(0..(n - 1)), 1..MaxPrice)
  /\ RollIdle /\ BacktestIdle /\ SideIdle /\ ResultIdle

NextReturns == Returns

SpecReturns == InitReturns /\ [][NextReturns]_vars

-----------------------------------------------------------------------------
(* The quarterly stage run on its own (backtest.py 149-156): indicator     *)
(* tables over up to MaxQuarters quarters, one month-end row per quarter   *)
(* and two (months 2 and 3) in the second, missing values allowed; flat    *)
(* prices on the same index.                                               *)
MaxQuarters == 5

QuarterMonths(nq) ==
  IndexOf({3 * k : k \in 0..(nq - 1)} \cup (IF nq > 1 THEN {2} ELSE {}))

QuarterlyInputs == {1, 2, NaN}

(* Monthly windows whose quarterly windows are 4 and 5.                    *)
QuarterlyRunWindows == {6, 15}

FlatPrices(index) ==
  [index |-> index, cols |-> [c \in Instruments |-> [i \in 1..Len(index) |-> 1]]]

InitQuarterly ==
  /\ pc = "resample" /\ err = ""
  /\ window \in QuarterlyRunWindows
  /\ \E nq \in 1..MaxQuarters :
       \E v \in [1..Len(QuarterMonths(nq)) -> QuarterlyInputs] :
         /\ ind = [index |-> QuarterMonths(nq), VIX_RATIO |-> v,
                   HY_IG_SPREAD |-> Reverse(v)]
         /\ etf = FlatPrices(QuarterMonths(nq))
  /\ RollIdle /\ BacktestIdle /\ SideIdle /\ ResultIdle

NextQuarterly == Quarterly

SpecQuarterly == InitQuarterly /\ [][NextQuarterly]_vars

-----------------------------------------------------------------------------
(* fav_unfav run on its own: mean returns and mean drawdowns of the        *)
(* instruments of SectorOrder in hundredths, missing ones included, every  *)
(* breadth up to MaxBreadth, every order the sort may leave ties in.       *)
MaxStat == 2       \* statistics are (v-1)/100 and -v/100 for v in 0..MaxStat
MaxBreadth == 3    \* largest ranking breadth n

(* v / 100 as the float64 a mean comes in.                                 *)
Hundredths(v) == F64Div(F64Int(v), F64Int(100))

ReturnStats == {Hundredths(v - 1) : v \in 0..MaxStat} \cup {F64NaN}
DrawdownStats == {Hundredths(0 - v) : v \in 0..MaxStat} \cup {F64NaN}

TieOrders ==
  {o \in [1..Len(SectorOrder) -> Range(SectorOrder)] : Range(o) = Range(SectorOrder)}

InitRank ==
  /\ pc = "fav_unfav" /\ err = ""
  /\ window = 1
  /\ avg_ret_series \in [Range(SectorOrder) -> ReturnStats]
  /\ avg_dd_series \in [Range(SectorOrder) -> DrawdownStats]
  /\ breadth \in 1..MaxBreadth
  /\ ties \in TieOrders
  /\ fav = NoResult
  /\ current = NoResult /\ FetchIdle /\ RunIdle
  /\ RollIdle /\ TablesIdle /\ BacktestIdle /\ ResultIdle

(* 174-184: one call of fav_unfav.                                         *)
FavUnfavCall ==
  /\ pc = "fav_unfav"
  /\ fav' = FavUnfav(SectorOrder, avg_ret_series, avg_dd_series, breadth, ties)
  /\ pc' = "ranked"
  /\ UNCHANGED <<err, window, rollVars, tableVars, backtestVars, resultVars>>
  /\ UNCHANGED <<avg_ret_series, avg_dd_series, breadth, ties, current>>
  /\ UNCHANGED <<fetchVars, runVars>>

NextRank == FavUnfavCall

SpecRank == InitRank /\ [][NextRank]_vars

-----------------------------------------------------------------------------
(* current_regime (backtest.py 221-248).                                   *)

(* config.QUADRANTS.get((vix_class, hy_class), quad)                       *)
RegimeLabel(vc, hc) ==
  CASE vc = "Low"  /\ hc = "Easy"  -> "Stable expansion (Risk-on)"
    [] vc = "Low"  /\ hc = "Tight" -> "Late cycle (Selective)"
    [] vc = "High" /\ hc = "Easy"  -> "Shock regime (Buy recovery)"
    [] vc = "High" /\ hc = "Tight" -> "Structural stress (Capital preservation)"

(* ind[col].dropna(): the rows of a column that hold a value, with their   *)
(* timestamps.                                                             *)
DropNaSeries(index, col) ==
  LET rows == RowsWhere(Len(index), {i \in 1..Len(index) : col[i] # NaN})
  IN  [index |-> Take(index, rows), values |-> Take(col, rows)]

(* The value current_regime returns, or the exception it raises.           *)
CurrentRegime(table, w) ==
  LET vix     == DropNaSeries(table.index, table.VIX_RATIO)
      hyig    == DropNaSeries(table.index, table.HY_IG_SPREAD)
      \* ind.index.max()
      last_dt == IndexOf(Range(table.index))[Len(table.index)]
      vix_p50 == RollingPercentile(vix.values, w, 50)
      hy_p50  == RollingPercentile(hyig.values, w, 50)
      iv      == PosOf(vix.index, last_dt)
      ih      == PosOf(hyig.index, last_dt)
  IN  IF vix.index = <<>> \/ hyig.index = <<>> THEN [returns |-> None]
      ELSE IF iv = 0 \/ ih = 0 THEN [raises |-> "KeyError"]
      ELSE LET vix_class == VixClassOf(AtOrAbove(vix.values[iv], vix_p50[iv]))
               hy_class  == HyClassOf(AtOrAbove(hyig.values[ih], hy_p50[ih]))
           IN  [returns |->
                  [date                   |-> ToString(last_dt),
                   VIX_ratio              |-> vix.values[iv],
                   HY_IG_spread           |-> hyig.values[ih],
                   VIX_class              |-> vix_class,
                   HYIG_class             |-> hy_class,
                   Quadrant               |-> QuadName(vix_class, hy_class),
                   QuadrantLabel          |-> RegimeLabel(vix_class, hy_class),
                   threshold_VIX_median   |-> vix_p50[iv],
                   threshold_HY_IG_median |-> hy_p50[ih]]]

CurrentRegimeCall ==
  /\ pc = "current_regime"
  /\ \E out \in {CurrentRegime(ind, window)} :
       IF "raises" \in DOMAIN out
       THEN pc' = "raised" /\ err' = out.raises /\ current' = current
       ELSE pc' = "returned" /\ err' = err /\ current' = out.returns
  /\ UNCHANGED <<window, rollVars, tableVars, backtestVars, resultVars>>
  /\ UNCHANGED <<rankVars, ties, fetchVars, runVars>>

(* current_regime run on its own: the indicator tables classify_quadrant   *)
(* is run on, every window.                                                *)
InitRegime ==
  /\ pc = "current_regime" /\ err = ""
  /\ window \in Windows
  /\ \E n \in 1..MaxMonths :
       ind \in IndicatorTables(IndexOf(0..(n - 1)), (1..MaxInd) \cup {NaN})
  /\ etf = NoFrame
  /\ RollIdle /\ BacktestIdle /\ SideIdle /\ ResultIdle

NextRegime == CurrentRegimeCall

SpecRegime == InitRegime /\ [][NextRegime]_vars

-----------------------------------------------------------------------------
(* load_data (backtest.py 20-56).  A CSV file is the table read from it, a *)
(* record whose fields are its columns; a file that is absent or cannot be *)
(* parsed is NoFile or Unreadable.                                         *)
WithoutColumn(table, c) == [f \in DOMAIN table \ {c} |-> table[f]]

(* 43-56: the pair load_data returns, or the exception it raises.          *)
(* Faulty variant: the tables returned as read, nothing checked.           *)
LoadedUnchecked(ind_csv, etf_csv) == [returns |-> [ind |-> ind_csv, etf |-> etf_csv]]
LoadedTables(ind_csv, etf_csv) ==
  IF ~({"VIX_RATIO", "HY_IG_SPREAD"} \subseteq DOMAIN ind_csv)
  THEN [raises |-> "ValueError"]
  ELSE LET kept   == RowsWhere(Len(ind_csv.index),
                       {i \in 1..Len(ind_csv.index) :
                          ind_csv.VIX_RATIO[i] # NaN \/ ind_csv.HY_IG_SPREAD[i] # NaN})
           index1 == Take(ind_csv.index, kept)
           common == Intersection(index1, etf_csv.index)
           \* .loc[common].sort_index(): the common rows, ascending
           sorted == IndexOf(Range(common))
           irows  == [k \in 1..Len(sorted) |-> PosOf(ind_csv.index, sorted[k])]
           erows  == [k \in 1..Len(sorted) |-> PosOf(etf_csv.index, sorted[k])]
       IN  IF common = <<>> THEN [raises |-> "ValueError"]
           ELSE [returns |->
                   [ind |-> [index        |-> sorted,
                             VIX_RATIO    |-> Take(ind_csv.VIX_RATIO, irows),
                             HY_IG_SPREAD |-> Take(ind_csv.HY_IG_SPREAD, irows)],
                    etf |-> [index |-> sorted,
                             cols  |-> [c \in DOMAIN etf_csv.cols |->
                                          Take(etf_csv.cols[c], erows)]]]]

(* 20-56: the two monthly files of config.DATA_DIR read and checked.       *)
LoadData ==
  /\ pc = "load"
  /\ \E ind_csv \in {data_dir.indicators_monthly},
        etf_csv \in {data_dir.sector_etfs_monthly} :
       IF ind_csv = NoFile \/ etf_csv = NoFile
       THEN pc' = "raised" /\ err' = "FileNotFoundError" /\ UNCHANGED tableVars
       ELSE IF ind_csv = Unreadable \/ etf_csv = Unreadable
       THEN pc' = "raised" /\ err' = "ValueError" /\ UNCHANGED tableVars
       ELSE \E out \in {LoadedTables(ind_csv, etf_csv)} :
              IF "raises" \in DOMAIN out
              THEN pc' = "raised" /\ err' = out.raises /\ UNCHANGED tableVars
              ELSE /\ pc' = "loaded" /\ err' = err
                   /\ ind' = out.returns.ind
                   /\ etf' = out.returns.etf
  /\ UNCHANGED <<window, rollVars, backtestVars, sideVars, resultVars>>

(* load_data on files, and backtest_monthly_quarterly on tables of any two *)
(* indexes: indicator tables with a required column absent or values       *)
(* missing, flat prices.  A file holds its rows in ascending order or in   *)
(* descending order.                                                       *)
ErrorIndicators ==
  LET full == UNION {IndicatorTables(i, {1, NaN}) : i \in Indexes}
  IN  full \cup {WithoutColumn(t, "VIX_RATIO") : t \in full}
           \cup {WithoutColumn(t, "HY_IG_SPREAD") : t \in full}

ErrorPrices == {FlatPrices(i) : i \in Indexes}

Descending(table) ==
  [f \in DOMAIN table |->
     IF f = "cols" THEN [c \in DOMAIN table.cols |-> Reverse(table.cols[c])]
     ELSE Reverse(table[f])]

IndicatorFiles ==
  ErrorIndicators \cup {Descending(t) : t \in ErrorIndicators}
                  \cup {NoFile, Unreadable}

PriceFiles ==
  ErrorPrices \cup {Descending(t) : t \in ErrorPrices} \cup {NoFile, Unreadable}

(* config.DATA_DIR holding the two monthly files.                          *)
DataDirWith(ind_csv, etf_csv) ==
  [EmptyDataDir(TRUE) EXCEPT !.indicators_monthly = ind_csv,
                             !.sector_etfs_monthly = etf_csv]

InitErrors ==
  /\ err = ""
  /\ window = 1
  /\ \/ /\ pc = "load"
        /\ \E ind_csv \in IndicatorFiles, etf_csv \in PriceFiles :
             data_dir = DataDirWith(ind_csv, etf_csv)
        /\ TablesIdle
     \/ /\ pc = "classify"
        /\ ind \in ErrorIndicators
        /\ etf \in ErrorPrices
        /\ data_dir = EmptyDataDir(FALSE)
  /\ entry = "" /\ outputs_dir = EmptyOutputsDir(FALSE) /\ df_fred = NoFrame
  /\ RankIdle /\ ties = SectorOrder /\ current = NoResult /\ FetchIdle
  /\ RollIdle /\ BacktestIdle /\ ResultIdle

NextErrors == LoadData \/ Next

SpecErrors == InitErrors /\ [][NextErrors]_vars

-----------------------------------------------------------------------------
(* run_backtest (backtest.py 251-289): the outputs directory made, the two *)
(* monthly files loaded, the backtest run with the configured window, the  *)
(* current regime added to its dictionary, and the dictionary saved.       *)
ROLLING_WINDOW_MONTHS == 60

(* 252-256: config.OUTPUTS_DIR.mkdir(parents=True, exist_ok=True), then    *)
(* load_data is called.                                                    *)
RunBacktestStart ==
  /\ pc = "run_backtest"
  /\ outputs_dir' = [outputs_dir EXCEPT !.exists = TRUE]
  /\ pc' = "load"
  /\ UNCHANGED <<err, window, rollVars, tableVars, backtestVars, resultVars>>
  /\ UNCHANGED <<rankVars, ties, current, fetchVars, entry, data_dir, df_fred>>

(* 258-259: backtest_monthly_quarterly(ind, etf, window) is called on the  *)
(* tables load_data returned.                                              *)
RunBacktestCall ==
  /\ pc = "loaded" /\ entry = "run_backtest"
  /\ window' = ROLLING_WINDOW_MONTHS
  /\ pc' = "classify"
  /\ UNCHANGED <<err, rollVars, tableVars, backtestVars, resultVars, sideVars>>

(* 261: results["current_regime"] = current                                *)
WithCurrentRegime(results, regime) ==
  [k \in DOMAIN results \cup {"current_regime"} |->
     IF k = "current_regime" THEN regime ELSE results[k]]

(* 264-284: the model's dictionaries hold no numpy values, so              *)
(* to_serializable leaves every entry as it is and backtest_results.json   *)
(* holds the dictionary; quadrant_history_monthly.csv is written only from *)
(* a history that has rows, and is left as it was otherwise.               *)
SavedOutputs(dir, results) ==
  [dir EXCEPT !.backtest_results = results,
              !.quadrant_history_monthly =
                 IF results.quadrant_history_monthly # <<>>
                 THEN results.quadrant_history_monthly
                 ELSE @]

(* 260-289: current_regime(ind, window), its value stored under            *)
(* "current_regime", the two output files written, the dictionary          *)
(* returned; a KeyError of current_regime ends the run with nothing saved. *)
RunBacktestSave ==
  /\ pc = "done" /\ entry = "run_backtest"
  /\ \E out \in {CurrentRegime(ind, window)} :
       IF "raises" \in DOMAIN out
       THEN /\ pc' = "raised" /\ err' = out.raises
            /\ UNCHANGED <<current, result, outputs_dir>>
       ELSE /\ pc' = "saved" /\ err' = err
            /\ current' = out.returns
            /\ \E results \in {WithCurrentRegime(result, out.returns)} :
                 /\ result' = results
                 /\ outputs_dir' = SavedOutputs(outputs_dir, results)
  /\ UNCHANGED <<window, rollVars, tableVars, backtestVars, clock, previous>>
  /\ UNCHANGED <<rankVars, ties, fetchVars, entry, data_dir, df_fred>>

(* run_backtest on a data directory holding any two monthly files, or      *)
(* none, with the outputs directory there or not.                          *)
RunPriceFiles ==
  LET full == UNION {PriceTables(i, 1..MaxLevel) : i \in Indexes}
  IN  full \cup {Descending(t) : t \in full} \cup {NoFile}

InitRunBacktest ==
  /\ pc = "run_backtest" /\ entry = "run_backtest" /\ err = ""
  /\ window = 0
  /\ \E ind_csv \in IndicatorFiles, etf_csv \in RunPriceFiles :
       data_dir = DataDirWith(ind_csv, etf_csv)
  /\ outputs_dir \in {EmptyOutputsDir(FALSE), EmptyOutputsDir(TRUE)}
  /\ df_fred = NoFrame
  /\ RankIdle /\ ties = SectorOrder /\ current = NoResult /\ FetchIdle
  /\ RollIdle /\ TablesIdle /\ BacktestIdle /\ ResultIdle

NextRunBacktest ==
  \/ RunBacktestStart \/ LoadData \/ RunBacktestCall \/ Next \/ RunBacktestSave

SpecRunBacktest == InitRunBacktest /\ [][NextRunBacktest]_vars

-----------------------------------------------------------------------------
(* backtest_monthly_quarterly invoked twice on the same tables and window: *)
(* the first result is kept aside and the function runs again, later.      *)
MaxClock == 2      \* latest reading of the wall clock

InvokeAgain ==
  /\ pc = "done"
  /\ previous = NoResult
  /\ previous' = result
  /\ result' = NoResult
  /\ clock' \in (clock + 1)..MaxClock
  /\ pc' = "classify"
  /\ quad' = NoFrame /\ ret_m' = NoFrame /\ dd_m' = NoFrame /\ max_dd_m' = <<>>
  /\ quad_aligned' = NoFrame /\ todo' = <<>> /\ monthly_by_quad' = <<>>
  /\ quad_q' = NoFrame /\ ret_q' = NoFrame /\ dd_q' = NoFrame
  /\ quad_q_aligned' = NoFrame /\ quarterly_by_quad' = <<>>
  /\ UNCHANGED <<err, window, rollVars, tableVars, sideVars>>

InitTwice == Init /\ window = 1

NextTwice == Next \/ InvokeAgain

SpecTwice == InitTwice /\ [][NextTwice]_vars

-----------------------------------------------------------------------------
(* fetch_sector_etfs (fetch_data.py 76-108): for each ticker up to         *)
(* max_retries calls of history(), one call per step.                      *)
max_retries == 3

(* The tickers the outer loop visits.                                      *)
FetchTickers == RowKeys

(* What one pass through the try block comes to: Close prices stored, an   *)
(* empty (or no) frame, a frame without a Close column, or an exception.   *)
Outcomes == {"data", "empty", "no_close", "ConnectionError", "TimeoutError",
             "OSError", "KeyError", "Exception"}

(* except (ConnectionError, TimeoutError, OSError)                         *)
(* Faulty variant: every exception taken for a transient one.              *)
AnyException(o) == o \notin {"data", "empty", "no_close"}
Transient(o) == o \in {"ConnectionError", "TimeoutError", "OSError"}

InitFetch ==
  /\ pc = "fetch" /\ err = ""
  /\ window = 1
  /\ tickers = FetchTickers /\ attempt = 0 /\ data = {} /\ history = <<>>
  /\ RankIdle /\ ties = SectorOrder /\ current = NoResult /\ RunIdle
  /\ RollIdle /\ TablesIdle /\ BacktestIdle /\ ResultIdle

(* One iteration of `for attempt in range(max_retries)` for the ticker at  *)
(* the head of the outer loop.                                             *)
FetchAttempt ==
  /\ pc = "fetch"
  /\ tickers # <<>>
  /\ \E o \in Outcomes :
       LET again == Transient(o) /\ attempt < max_retries - 1
       IN  /\ history' = IF entry = ""
                         THEN Append(history, [ticker  |-> Head(tickers),
                                               attempt |-> attempt + 1,
                                               outcome |-> o])
                         ELSE history
           /\ data' = IF o = "data" THEN data \cup {Head(tickers)} ELSE data
           /\ attempt' = IF again THEN attempt + 1 ELSE 0
           /\ tickers' = IF again THEN tickers ELSE Tail(tickers)
           /\ pc' = IF ~again /\ Tail(tickers) = <<>> THEN "fetched" ELSE "fetch"
  /\ UNCHANGED <<err, window, rollVars, tableVars, backtestVars, resultVars>>
  /\ UNCHANGED <<rankVars, ties, current, runVars>>

NextFetch == FetchAttempt

SpecFetch == InitFetch /\ [][NextFetch]_vars

(* The function runs to its end: every call of history() returns or raises. *)
SpecFetchFair == SpecFetch /\ WF_vars(FetchAttempt)

-----------------------------------------------------------------------------
(* fetch_data.run (fetch_data.py 111-177) with _get_fred_key and           *)
(* fetch_fred_indicators: the daily indicator series fetched and checked,  *)
(* the sector prices fetched, and the daily, monthly and quarterly files   *)
(* and meta.json written.  A daily table has a row per trading day, the    *)
(* days numbered from 0; a Series is [index, values].                      *)
REQUIRED_ROWS == 100
TradingDays == 25      \* trading days in a month of the daily tables

(* 23-41: the three places a key is looked for, in order.  A source is the *)
(* text found there, "" when the variable or file is absent or empty.      *)
KeyTexts == {"", "paste key here", "YOUR_KEY", "abc123"}

(* key and not key.startswith("paste") and "your" not in key.lower()       *)
UsableKey(key) == key \notin {"", "paste key here", "YOUR_KEY"}

GetFredKey(sources) ==
  IF \E k \in 1..Len(sources) : UsableKey(sources[k])
  THEN [returns |-> sources[CHOOSE k \in 1..Len(sources) :
                              /\ UsableKey(sources[k])
                              /\ \A j \in 1..(k - 1) : ~UsableKey(sources[j])]]
  ELSE [raises |-> "ValueError"]

(* 55-60: series_map, in its order.                                        *)
FredNames == <<"VIX1M", "VIX3M", "HY_OAS", "IG_OAS">>

(* What fred.get_series comes to: a series, an empty series or None, or an *)
(* exception.                                                              *)
FredOutcomes == {"series", "empty", "raises"}

(* 44-73: the dictionary fetch_fred_indicators returns, or the exception   *)
(* it raises.  init_ok: fredapi imports and Fred(api_key) is built.        *)
FetchFredIndicators(sources, init_ok, outcome, quotes) ==
  IF "raises" \in DOMAIN GetFredKey(sources) THEN [raises |-> "ValueError"]
  ELSE IF ~init_ok THEN [raises |-> "RuntimeError"]
  ELSE IF \E k \in 1..Len(FredNames) : outcome[FredNames[k]] = "raises"
  THEN [raises |-> "RuntimeError"]
  ELSE [returns |->
          [name \in {FredNames[k] : k \in 1..Len(FredNames)}
                      \cap {nm \in DOMAIN outcome : outcome[nm] = "series"} |->
             quotes[name]]]

(* The trading days from..n-1, ascending.                                  *)
Days(from, n) == [i \in 1..(n - from) |-> from + i - 1]

(* pd.DataFrame(dict of Series): the union of the indexes, ascending, each *)
(* column missing where its series has no row.                             *)
FrameIndex(of) ==
  LET days == UNION {Range(of[k].index) : k \in DOMAIN of}
  IN  SelectSeq(Days(0, REQUIRED_ROWS), LAMBDA d : d \in days)

FrameColumns(of, index) ==
  [k \in DOMAIN of |-> Reindex(of[k].values, of[k].index, index, NaN)]

(* 129: df_fred["VIX1M"] / df_fred["VIX3M"], row by row.  The quotes of    *)
(* the model are whole multiples, so the quotient is a whole number.       *)
Ratio(a, b) ==
  IF a = NaN \/ b = NaN THEN NaN ELSE CHOOSE q \in 0..a : q * b = a

(* 130: df_fred["HY_OAS"] - df_fred["IG_OAS"], row by row.                 *)
Spread(a, b) == IF a = NaN \/ b = NaN THEN NaN ELSE a - b

(* 116-130: df_fred with its two derived columns.                          *)
IndicatorFrame(fred) ==
  LET index == FrameIndex(fred)
      cols  == FrameColumns(fred, index)
  IN  [f \in {"index", "VIX_RATIO", "HY_IG_SPREAD"} \cup DOMAIN fred |->
         IF f = "index" THEN index
         ELSE IF f = "VIX_RATIO"
         THEN [i \in 1..Len(index) |-> Ratio(cols["VIX1M"][i], cols["VIX3M"][i])]
         ELSE IF f = "HY_IG_SPREAD"
         THEN [i \in 1..Len(index) |-> Spread(cols["HY_OAS"][i], cols["IG_OAS"][i])]
         ELSE cols[f]]

(* The month a trading day lies in.                                        *)
MonthOf(day) == day \div TradingDays

MonthsOf(days) == [i \in 1..Len(days) |-> MonthOf(days[i])]

(* The bins of resample("ME"): every month from the first row's to the     *)
(* last row's.                                                             *)
MonthIndex(days) ==
  IF days = <<>> THEN <<>>
  ELSE [k \in 1..(MonthOf(days[Len(days)]) - MonthOf(days[1]) + 1) |->
          MonthOf(days[1]) + k - 1]

(* .last(): the last value of the column among the rows 1..i of month m.   *)
RECURSIVE LastInMonth(_, _, _, _)
LastInMonth(col, days, m, i) ==
  IF i = 0 THEN NaN
  ELSE IF MonthOf(days[i]) = m /\ col[i] # NaN THEN col[i]
  ELSE LastInMonth(col, days, m, i - 1)

MonthlyLast(col, days) ==
  LET mi == MonthIndex(days)
  IN  [k \in 1..Len(mi) |-> LastInMonth(col, days, mi[k], Len(days))]

(* 152, 154: df_fred.resample("ME").last() and .resample("QE").last()      *)
MonthlyIndicators(frame) ==
  [f \in DOMAIN frame |->
     IF f = "index" THEN MonthIndex(frame.index)
     ELSE MonthlyLast(frame[f], frame.index)]

QuarterlyIndicators(frame) ==
  [f \in DOMAIN frame |->
     IF f = "index" THEN QuarterIndex(MonthsOf(frame.index))
     ELSE ResampleLast(frame[f], MonthsOf(frame.index), NaN)]

(* 157, 159: df_etf.resample("ME").last() and .resample("QE").last()       *)
MonthlyPrices(frame) ==
  [index |-> MonthIndex(frame.index),
   cols  |-> [c \in DOMAIN frame.cols |-> MonthlyLast(frame.cols[c], frame.index)]]

QuarterlyPrices(frame) ==
  [index |-> QuarterIndex(MonthsOf(frame.index)),
   cols  |-> [c \in DOMAIN frame.cols |->
                ResampleLast(frame.cols[c], MonthsOf(frame.index), NaN)]]

(* df_fred.isnull().sum().sum()                                            *)
RECURSIVE MissingIn(_, _)
MissingIn(frame, columns) ==
  IF columns = {} THEN 0
  ELSE LET c == CHOOSE x \in columns : TRUE
       IN  Cardinality({i \in 1..Len(frame[c]) : frame[c][i] = NaN})
             + MissingIn(frame, columns \ {c})

(* 162-173: meta.json                                                      *)
Meta(now, frame, etfs) ==
  [fetched_at            |-> now,
   indicators_daily_rows |-> Len(frame.index),
   sector_etfs           |-> SelectSeq(FetchTickers, LAMBDA t : t \in DOMAIN etfs),
   date_range            |-> [start |-> ToString(frame.index[1]),
                              end   |-> ToString(frame.index[Len(frame.index)])],
   validation            |->
     [fred_series_count |-> Cardinality(DOMAIN frame \ {"index"}),
      etf_count         |-> Cardinality(DOMAIN etfs),
      missing_etfs      |-> Range(FetchTickers) \ DOMAIN etfs,
      missing_values    |-> MissingIn(frame, DOMAIN frame \ {"index"})]]

(* The daily quotes the two services hold: rows for the days 0..n-1; a     *)
(* series quoted through its first `months` months and missing after, and  *)
(* missing on the last trading day of every month when that day is a       *)
(* holiday; the quotes alternate between base and base + swing.            *)
DailyQuotes(n, base, swing, months, holiday) ==
  [index  |-> Days(0, n),
   values |-> [i \in 1..n |->
                 IF \/ MonthOf(i - 1) >= months
                    \/ holiday /\ (i - 1) % TradingDays = TradingDays - 1
                 THEN NaN
                 ELSE base + swing * ((i - 1) % 2)]]

FredQuotes(n, vix_months, hy_months, holiday) ==
  [name \in {"VIX1M", "VIX3M", "HY_OAS", "IG_OAS"} |->
     CASE name = "VIX1M"  -> DailyQuotes(n, 1, 1, vix_months, holiday)
       [] name = "VIX3M"  -> DailyQuotes(n, 1, 0, vix_months, holiday)
       [] name = "HY_OAS" -> DailyQuotes(n, 2, 1, hy_months, holiday)
       [] name = "IG_OAS" -> DailyQuotes(n, 1, 0, hy_months, holiday)]

QuotedMonths == {2, REQUIRED_ROWS \div TradingDays}
DailyRows == {REQUIRED_ROWS - 1, REQUIRED_ROWS}

FredServices ==
  {FredQuotes(n, vix_months, hy_months, holiday) :
     n \in DailyRows, vix_months \in QuotedMonths, hy_months \in QuotedMonths,
     holiday \in BOOLEAN}

(* hist["Close"].dropna() of the fetched tickers: closing prices for the   *)
(* days up to n, XLF from its listing at the start of the second month     *)
(* when it is listed late.                                                 *)
ClosePrices(fetched, n, late) ==
  [t \in fetched |->
     LET from == IF late /\ t = "XLF" THEN TradingDays ELSE 0
     IN  [index  |-> Days(from, n),
          values |-> [i \in 1..(n - from) |-> 1 + ((from + i - 1) % 2)]]]

(* 111-136: the data directory made, the indicators fetched, checked and   *)
(* written, and fetch_sector_etfs entered.                                 *)
RunFetchFred ==
  /\ pc = "run"
  /\ \E fred \in {FetchFredIndicators(sources, init_ok, outcome, quotes) :
                     sources \in [1..3 -> KeyTexts], init_ok \in BOOLEAN,
                     outcome \in [Range(FredNames) -> FredOutcomes],
                     quotes \in FredServices} :
       IF "raises" \in DOMAIN fred
       THEN /\ pc' = "raised" /\ err' = fred.raises
            /\ data_dir' = [data_dir EXCEPT !.exists = TRUE]
            /\ UNCHANGED <<df_fred, fetchVars>>
       ELSE IF Range(FredNames) \ DOMAIN fred.returns # {}
       THEN /\ pc' = "raised" /\ err' = "ValueError"
            /\ data_dir' = [data_dir EXCEPT !.exists = TRUE]
            /\ UNCHANGED <<df_fred, fetchVars>>
       ELSE \E frame \in {IndicatorFrame(fred.returns)} :
              IF Len(frame.index) < REQUIRED_ROWS
              THEN /\ pc' = "raised" /\ err' = "ValueError"
                   /\ data_dir' = [data_dir EXCEPT !.exists = TRUE]
                   /\ UNCHANGED <<df_fred, fetchVars>>
              ELSE /\ df_fred' = frame
                   /\ data_dir' = [data_dir EXCEPT !.exists = TRUE,
                                                   !.indicators_daily = frame]
                   /\ tickers' = FetchTickers /\ attempt' = 0
                   /\ data' = {} /\ history' = <<>>
                   /\ pc' = "fetch" /\ err' = err
  /\ UNCHANGED <<window, rollVars, tableVars, backtestVars, resultVars>>
  /\ UNCHANGED <<rankVars, ties, current, entry, outputs_dir>>

(* The files lines 142-175 write.                                          *)
WrittenDataDir(dir, now, frame, etfs) ==
  LET index  == FrameIndex(etfs)
      df_etf == [index |-> index, cols |-> FrameColumns(etfs, index)]
  IN  [dir EXCEPT !.sector_etfs_daily     = df_etf,
                  !.indicators_monthly    = MonthlyIndicators(frame),
                  !.indicators_quarterly  = QuarterlyIndicators(frame),
                  !.sector_etfs_monthly   = MonthlyPrices(df_etf),
                  !.sector_etfs_quarterly = QuarterlyPrices(df_etf),
                  !.meta                  = Meta(now, frame, etfs)]

(* 136-177: the prices fetch_sector_etfs returned are checked and the      *)
(* files written.                                                          *)
RunWrite ==
  /\ pc = "fetched" /\ entry = "run"
  /\ \E n \in DailyRows, late \in BOOLEAN :
       \E etfs \in {ClosePrices(data, n, late)} :
         IF Len(FrameIndex(etfs)) < REQUIRED_ROWS
         THEN pc' = "raised" /\ err' = "ValueError" /\ data_dir' = data_dir
         ELSE /\ pc' = "ran" /\ err' = err
              /\ data_dir' = WrittenDataDir(data_dir, clock, df_fred, etfs)
  /\ UNCHANGED <<window, rollVars, tableVars, backtestVars, resultVars>>
  /\ UNCHANGED <<rankVars, ties, current, fetchVars, entry, outputs_dir, df_fred>>

(* "Ready to run backtest.py" (177): backtest.py is run on the files.      *)
ThenBacktest ==
  /\ pc = "ran"
  /\ pc' = "run_backtest"
  /\ entry' = "run_backtest"
  /\ UNCHANGED <<err, window, rollVars, tableVars, backtestVars, resultVars>>
  /\ UNCHANGED <<rankVars, ties, current, fetchVars, data_dir, outputs_dir, df_fred>>

(* fetch_data.py run on a machine with no data yet, then backtest.py.      *)
InitRun ==
  /\ pc = "run" /\ entry = "run" /\ err = ""
  /\ window = 0
  /\ data_dir \in {EmptyDataDir(FALSE), EmptyDataDir(TRUE)}
  /\ outputs_dir = EmptyOutputsDir(FALSE)
  /\ df_fred = NoFrame
  /\ RankIdle /\ ties = SectorOrder /\ current = NoResult /\ FetchIdle
  /\ RollIdle /\ TablesIdle /\ BacktestIdle /\ ResultIdle

NextRun ==
  \/ RunFetchFred \/ FetchAttempt \/ RunWrite \/ ThenBacktest
  \/ NextRunBacktest

SpecRun == InitRun /\ [][NextRun]_vars

-----------------------------------------------------------------------------
(* Reference definitions the claims are stated with: the trailing window   *)
(* as a set of positions, percentiles by rank, means and extremes by set.  *)

(* The positions of the trailing window of w rows ending at i that hold a  *)
(* value of x.                                                             *)
TrailingValid(x, w, i) == {j \in 1..i : j > i - w /\ x[j] # NaN}

(* The k-th smallest (k from 0) of the values of x at positions J, by rank. *)
OrderStat(x, J, k) ==
  CHOOSE v \in {x[j] : j \in J} :
    /\ Cardinality({j \in J : x[j] < v}) <= k
    /\ k < Cardinality({j \in J : x[j] <= v})

(* The p-th percentile of the values of x at positions J, computed         *)
(* directly: h = (n-1)p/100, x(floor h) + (h - floor h)(x(ceil h) - x(floor h)). *)
DirectPercentile(x, J, pp) ==
  LET n  == Cardinality(J)
      lo == ((n - 1) * pp) \div 100
      hi == IF lo + 1 < n THEN lo + 1 ELSE lo
      a  == OrderStat(x, J, lo)
      b  == OrderStat(x, J, hi)
  IN  FAdd(<<a, 1>>, FMul(Frac((n - 1) * pp - 100 * lo, 100), <<b - a, 1>>))

EnoughObservations(x, w, i) ==
  Cardinality(TrailingValid(x, w, i)) >= (IF w \div 2 >= 1 THEN w \div 2 ELSE 1)

(* The rolling median of x at i as the specification defines it.           *)
DirectMedian(x, w, i) ==
  IF EnoughObservations(x, w, i)
  THEN DirectPercentile(x, TrailingValid(x, w, i), 50)
  ELSE NaNF

RECURSIVE FSum(_, _)
FSum(S, f) ==
  IF S = {} THEN F64Zero
  ELSE LET k == CHOOSE j \in S : TRUE
       IN  F64Add(f[k], FSum(S \ {k}, f))

(* Mean and minimum of the defined values of f at the positions S.         *)
MeanAt(S, f) ==
  LET D == {k \in S : ~IsNan(f[k])}
  IN  IF D = {} THEN F64NaN ELSE F64Div(FSum(D, f), F64Int(Cardinality(D)))

MinAt(S, f) ==
  LET D == {k \in S : ~IsNan(f[k])}
  IN  IF D = {} THEN F64NaN
      ELSE f[CHOOSE k \in D : \A j \in D : F64GE(f[j], f[k])]

QuadrantCodes == {"Low_Easy", "Low_Tight", "High_Easy", "High_Tight"}

-----------------------------------------------------------------------------
(* Claims about rolling_percentile, checked under SpecRoll.                *)

(* C5: the result at position i is defined if and only if the trailing     *)
(* window of the last W positions ending at i holds at least               *)
(* max(1, floor(W/2)) non-missing observations.                            *)
C5_DefinedIffEnoughObservations ==
  \A i \in 1..Len(roll_out) :
    (~IsNaNF(roll_out[i])) <=> EnoughObservations(series, window, i)

(* C5 witness: a finished run over a series with a missing value in which *)
(* one position is below the threshold and a later one reaches it only     *)
(* through the values present.                                             *)
C5_Witness ==
  /\ pc = "rolled" /\ window = 4 /\ Len(series) = 4
  /\ series[2] = NaN
  /\ IsNaNF(roll_out[1]) /\ IsNaNF(roll_out[2]) /\ ~IsNaNF(roll_out[3])

(* C6: wherever the result is defined it equals the p-th percentile        *)
(* (linear interpolation between ranks) of the non-missing values at       *)
(* positions max(0, i-W+1)..i and of nothing else.                         *)
C6_EqualsDirectPercentile ==
  \A i \in 1..Len(roll_out) :
    ~IsNaNF(roll_out[i]) =>
      /\ TrailingValid(series, window, i) # {}
      /\ roll_out[i] = DirectPercentile(series, TrailingValid(series, window, i), p)

(* C6 witness: the window has slid past the first row, holds a missing     *)
(* value, and the percentile falls between two ranks.                      *)
C6_Witness ==
  /\ pc = "rolled" /\ window = 3 /\ Len(series) = 4 /\ p = 25
  /\ series[1] = 1 /\ series[3] = NaN /\ series[2] # series[4]
  /\ roll_out[4][2] > 1

-----------------------------------------------------------------------------
(* Claims about classify_quadrant, checked under SpecClassify.             *)

Classified == pc = "returns" /\ quad # NoFrame

(* C3: every Quadrant value is one of the four codes or undefined, and it  *)
(* is undefined exactly where the rolling median of X or of Y is           *)
(* undefined.  The code labels those rows Low_Easy.                        *)
C3_UndefinedIffMedianUndefined ==
  Classified =>
    \A i \in 1..Len(quad.index) :
      /\ quad.Quadrant[i] \in QuadrantCodes \cup {NaS}
      /\ (quad.Quadrant[i] = NaS) <=>
           (\/ IsNaNF(DirectMedian(quad.VIX_ratio, window, i))
            \/ IsNaNF(DirectMedian(quad.HY_IG_spread, window, i)))

(* C4: where both rolling medians are defined, the X class is High exactly *)
(* when X(t) >= median(X)(t) and Low otherwise, the Y class is Tight       *)
(* exactly when Y(t) >= median(Y)(t) and Easy otherwise; a tie is High     *)
(* (Tight).                                                                *)
C4_ClassByMedian ==
  Classified =>
    \A i \in 1..Len(quad.index) :
      LET x  == quad.VIX_ratio[i]
          y  == quad.HY_IG_spread[i]
          mx == DirectMedian(quad.VIX_ratio, window, i)
          my == DirectMedian(quad.HY_IG_spread, window, i)
      IN  (~IsNaNF(mx) /\ ~IsNaNF(my)) =>
            /\ quad.VIX_class[i] =
                 (IF x # NaN /\ x * mx[2] >= mx[1] THEN "High" ELSE "Low")
            /\ quad.HYIG_class[i] =
                 (IF y # NaN /\ y * my[2] >= my[1] THEN "Tight" ELSE "Easy")

(* C4 witness: a three-row window whose third X equals its median (High)   *)
(* while the third Y lies below its median (Easy).                         *)
C4_Witness ==
  /\ Classified /\ window = 3
  /\ quad.VIX_ratio = <<1, 2, 2>> /\ quad.HY_IG_spread = <<2, 2, 1>>
  /\ quad.VIX_class[3] = "High" /\ quad.HYIG_class[3] = "Easy"

-----------------------------------------------------------------------------
(* Claims about returns_and_drawdown, checked under SpecReturns.           *)

Returned == pc = "align" /\ dd_m # NoFrame

(* The first quoted row of a price column.                                 *)
FirstQuoted(px) == CHOOSE i \in 1..Len(px) : px[i] # NaN /\ \A j \in 1..(i - 1) : px[j] = NaN

(* The cumulative growth returns_and_drawdown computes for a price column. *)
GrowthOf(px) == CumGrowth(PctChange(px))

(* Growth at i is the running maximum of growth up to and including i.     *)
AtRunningPeak(cum, i) ==
  \A j \in 1..i : IsNan(cum[j]) \/ F64GE(cum[i], cum[j])

(* The levels of a price column have never fallen up to row i.             *)
OnlyRisen(px, i) ==
  \A j \in (FirstQuoted(px) + 1)..i : px[j - 1] <= px[j]

-----------------------------------------------------------------------------
(* Claims about backtest_monthly_quarterly, checked under Spec.            *)

Aligned == quad_aligned # NoFrame

(* The by-quadrant loop of a cadence is over: it ran to its end or raised. *)
MonthlyEnded == quad_aligned # NoFrame /\ pc # "monthly"
QuarterlyEnded == quad_q_aligned # NoFrame /\ pc # "quarterly"

(* The rows of an aligned return stream that carry label q.                *)
Members(aligned, q) == {k \in 1..Len(aligned.index) : aligned.Quadrant[k] = q}

(* The rows of the drawdown frame at the timestamps of those members.      *)
DdRows(aligned, dd, q) == {PosOf(dd.index, aligned.index[k]) : k \in Members(aligned, q)}

Emitted(rows, q) == {r \in 1..Len(rows) : rows[r].quadrant = q}

(* The label classify_quadrant produced at the latest indicator timestamp  *)
(* s <= t that has a defined label, NaS when there is none.                *)
AsOfLabel(q, t) ==
  LET S == {j \in 1..Len(q.index) : q.index[j] <= t /\ q.Quadrant[j] # NaS}
  IN  IF S = {} THEN NaS
      ELSE q.Quadrant[CHOOSE j \in S : \A i \in S : i <= j]

(* C1: the label assigned to return timestamp t is the classifier's label  *)
(* at the latest indicator timestamp s <= t with a defined label, whether  *)
(* or not s is a return timestamp, and undefined when there is none.  The  *)
(* code reindexes before it fills, so a label at an indicator timestamp    *)
(* that is no return timestamp is lost.                                    *)
C1_AsOfAlignment ==
  Aligned =>
    \A k \in 1..Len(quad_aligned.index) :
      quad_aligned.Quadrant[k] = AsOfLabel(quad, quad_aligned.index[k])

(* The indicator table cut to the timestamps <= t.                         *)
UpTo(table, t) ==
  LET rows == RowsWhere(Len(table.index),
                {i \in 1..Len(table.index) : table.index[i] <= t})
  IN  [index        |-> Take(table.index, rows),
       VIX_RATIO    |-> Take(table.VIX_RATIO, rows),
       HY_IG_SPREAD |-> Take(table.HY_IG_SPREAD, rows)]

(* The price timestamp before t: the start of the period return(t) spans.  *)
PeriodStart(t) == etf.index[PosOf(etf.index, t) - 1]

(* C2: the label paired with return(t) is determined by the indicator      *)
(* observations up to the previous price timestamp alone: it is the label  *)
(* the same run produces from the indicator table cut at that timestamp.   *)
(* The code pairs return(t) with the label computed from X(t), Y(t).       *)
C2_LabelFromPeriodStart ==
  Aligned =>
    \A k \in 1..Len(quad_aligned.index) :
      LET cut == UpTo(ind, PeriodStart(quad_aligned.index[k]))
          q0  == ClassifyQuadrant(cut.index, cut.VIX_RATIO, cut.HY_IG_SPREAD, window)
      IN  quad_aligned.Quadrant[k] = AlignQuad(q0, quad_aligned.index).Quadrant[k]

(* A cadence emits a row for a label exactly when the label has at least  *)
(* 2 member rows, each row reporting that count.                           *)
RowIffTwoMembers(aligned, rows) ==
  \A q \in QuadrantCodes :
    /\ (Emitted(rows, q) # {}) <=> (Cardinality(Members(aligned, q)) >= 2)
    /\ \A r \in Emitted(rows, q) :
         /\ rows[r].n = Cardinality(Members(aligned, q))
         /\ rows[r].n >= 2

(* C8: at both cadences a row is emitted for a label if and only if the    *)
(* label has at least 2 member rows, labels with fewer are skipped without *)
(* an error, and each emitted row reports its member count.  The code      *)
(* raises IndexingError at the first label with 2 or more members (C10).   *)
C8_RowIffTwoMembers ==
  /\ MonthlyEnded =>
       (err # "IndexingError" /\ RowIffTwoMembers(quad_aligned, monthly_by_quad))
  /\ QuarterlyEnded =>
       (err # "IndexingError" /\ RowIffTwoMembers(quad_q_aligned, quarterly_by_quad))

(* Every emitted row carries, per instrument, the mean of the returns at    *)
(* exactly the rows of the aligned stream that bear its label.             *)
MeanReturnOverMembers(aligned, ret, rows) ==
  \A r \in 1..Len(rows) : \A c \in DOMAIN ret.cols :
    rows[r].avg_return[c] = MeanAt(Members(aligned, rows[r].quadrant), ret.cols[c])

(* C9: every emitted row carries, for every instrument, the arithmetic     *)
(* mean of that instrument's returns at exactly the timestamps whose       *)
(* aligned label is the row's label, missing returns excluded.  No run     *)
(* emits a row (the drawdown selection raises first, C10), so no state     *)
(* shows a row whose mean could be compared.                               *)
C9_MeanReturnOverMembers ==
  /\ MonthlyEnded => MeanReturnOverMembers(quad_aligned, ret_m, monthly_by_quad)
  /\ QuarterlyEnded => MeanReturnOverMembers(quad_q_aligned, ret_q, quarterly_by_quad)

(* Every label with at least 2 members has a row whose avg_drawdown is the *)
(* mean and whose max_drawdown is the minimum of the drawdowns at its      *)
(* member timestamps.                                                      *)
DrawdownStatsOverMembers(aligned, dd, rows) ==
  \A q \in QuadrantCodes :
    Cardinality(Members(aligned, q)) >= 2 =>
      \E r \in Emitted(rows, q) : \A c \in Instruments :
        /\ rows[r].avg_drawdown[c] = MeanAt(DdRows(aligned, dd, q), dd.cols[c])
        /\ rows[r].max_drawdown[c] = MinAt(DdRows(aligned, dd, q), dd.cols[c])

(* C10: for a label with at least 2 member rows the run computes           *)
(* avg_drawdown as the mean and max_drawdown as the minimum of the         *)
(* drawdowns at that label's member timestamps; selecting drawdown rows by *)
(* the mask built on the return timestamps does not fail.  The drawdown    *)
(* frame keeps the first price timestamp, the mask lacks it, and           *)
(* dd_m.loc[mask] raises IndexingError.                                    *)
C10_DrawdownStatsOverMembers ==
  /\ MonthlyEnded =>
       DrawdownStatsOverMembers(quad_aligned, dd_m, monthly_by_quad)
  /\ QuarterlyEnded =>
       DrawdownStatsOverMembers(quad_q_aligned, dd_q, quarterly_by_quad)

-----------------------------------------------------------------------------
(* Claims about the quarterly stage, checked under SpecQuarterly.          *)

QuarterlyClassified == quad_q # NoFrame

(* The quarters spanned by a monthly index, oldest first, as the set of    *)
(* their closing months.                                                   *)
QuartersSpanned(index) ==
  {e \in QuarterEnd(index[1])..QuarterEnd(index[Len(index)]) : e % 3 = 0}

(* The last known value of a column within the quarter closing at e.       *)
LastKnown(col, index, e) ==
  LET K == {j \in 1..Len(index) : QuarterEnd(index[j]) = e /\ col[j] # NaN}
  IN  IF K = {} THEN NaN ELSE col[CHOOSE j \in K : \A i \in K : i <= j]

(* The window of the coarse cadence.                                       *)
CoarseWindow(w) == IF w \div 3 > 4 THEN w \div 3 ELSE 4

(* The classifier run from scratch on the coarsened indicators.            *)
CoarseReference ==
  LET qi == IndexOf(QuartersSpanned(ind.index))
      x  == [k \in 1..Len(qi) |-> LastKnown(ind.VIX_RATIO, ind.index, qi[k])]
      y  == [k \in 1..Len(qi) |-> LastKnown(ind.HY_IG_SPREAD, ind.index, qi[k])]
  IN  ClassifyQuadrant(qi, x, y, CoarseWindow(window))

(* C11: the quarterly regime stream equals the classifier run from scratch *)
(* with window max(4, floor(W/3)) on the two indicator series coarsened by *)
(* the last known value within each quarter; the labels aligned to the     *)
(* quarterly returns are that stream's labels at the same quarters.        *)
C11_QuarterlyFromScratch ==
  QuarterlyClassified =>
    LET ref == CoarseReference
    IN  /\ quad_q.index = ref.index
        /\ quad_q.VIX_class = ref.VIX_class
        /\ quad_q.HYIG_class = ref.HYIG_class
        /\ quad_q.Quadrant = ref.Quadrant
        /\ \A k \in 1..Len(quad_q_aligned.index) :
             quad_q_aligned.Quadrant[k] =
               ref.Quadrant[PosOf(ref.index, quad_q_aligned.index[k])]

(* C11 witness: five quarters with W = 15, so the window of 5 quarters     *)
(* reaches one quarter further back than 4 would; the quarter whose last   *)
(* month is missing takes the value of the month before; the fifth label   *)
(* rests on the first quarter's value.                                     *)
C11_Witness ==
  /\ QuarterlyClassified /\ window = 15
  /\ ind.VIX_RATIO = <<1, 2, NaN, 2, 1, 1>>
  /\ quad_q.VIX_ratio = <<1, 2, 2, 1, 1>>
  /\ quad_q.VIX_class = <<"Low", "High", "High", "Low", "High">>

-----------------------------------------------------------------------------
(* Claims about fav_unfav, checked under SpecRank.                         *)

Ranked == pc = "ranked" /\ fav # NoResult

(* The instruments with a defined statistic.                               *)
WithStat(val) == {k \in Range(SectorOrder) : ~IsNan(val[k])}

(* min(N, k)                                                               *)
UpToN(val) == IF breadth < Cardinality(WithStat(val)) THEN breadth
              ELSE Cardinality(WithStat(val))

(* The list holds instruments with the highest (lowest) statistic: no      *)
(* instrument left out has a higher (lower) one than an instrument listed. *)
HoldsHighest(list, val) ==
  \A a \in Range(list) : \A b \in WithStat(val) \ Range(list) : F64GE(val[a], val[b])
HoldsLowest(list, val) ==
  \A a \in Range(list) : \A b \in WithStat(val) \ Range(list) : F64GE(val[b], val[a])

(* C12: favorite_by_drawdown lists the (up to N) instruments whose mean    *)
(* drawdown is closest to zero (least negative), unfavorite_by_drawdown    *)
(* the (up to N) whose mean drawdown is most negative.  The code sorts     *)
(* ascending and takes the head as favorites: the most negative ones.      *)
C12_FavoriteDrawdownClosestToZero ==
  Ranked =>
    /\ Cardinality(Range(fav.favorite_by_drawdown)) = UpToN(avg_dd_series)
    /\ HoldsHighest(fav.favorite_by_drawdown, avg_dd_series)
    /\ Cardinality(Range(fav.unfavorite_by_drawdown)) = UpToN(avg_dd_series)
    /\ HoldsLowest(fav.unfavorite_by_drawdown, avg_dd_series)

(* C13: favorite_by_return is the (up to N) instruments with the highest   *)
(* mean return, listed in descending order of mean return;                 *)
(* unfavorite_by_return is the (up to N) instruments with the lowest; no   *)
(* instrument outside the N lowest (highest) appears in the unfavorite     *)
(* (favorite) list.                                                        *)
C13_ReturnRanking ==
  Ranked =>
    /\ Cardinality(Range(fav.favorite_by_return)) = UpToN(avg_ret_series)
    /\ HoldsHighest(fav.favorite_by_return, avg_ret_series)
    /\ \A i \in 1..(Len(fav.favorite_by_return) - 1) :
         F64GE(avg_ret_series[fav.favorite_by_return[i]],
             avg_ret_series[fav.favorite_by_return[i + 1]])
    /\ Cardinality(Range(fav.unfavorite_by_return)) = UpToN(avg_ret_series)
    /\ HoldsLowest(fav.unfavorite_by_return, avg_ret_series)

(* C13 witness: three distinct mean returns and N = 2: the two highest in  *)
(* descending order, the two lowest, the middle instrument in both.        *)
C13_Witness ==
  /\ Ranked /\ breadth = 2
  /\ avg_ret_series["XLK"] = Hundredths(0)
  /\ avg_ret_series["XLF"] = Hundredths(1)
  /\ avg_ret_series["XLV"] = Hundredths(-1)
  /\ fav.favorite_by_return = <<"XLF", "XLK">>
  /\ fav.unfavorite_by_return = <<"XLK", "XLV">>

(* The four lists of a result.                                             *)
ListsOf(f) ==
  {<<f.favorite_by_return, avg_ret_series>>,
   <<f.unfavorite_by_return, avg_ret_series>>,
   <<f.favorite_by_drawdown, avg_dd_series>>,
   <<f.unfavorite_by_drawdown, avg_dd_series>>}

(* C14: each of the four lists has length exactly min(N, k), k the number  *)
(* of instruments with a defined statistic for the list's metric; every    *)
(* entry has a defined statistic, none is repeated, and k < N (k = 0       *)
(* included) gives shorter lists, not an error.                            *)
C14_ListLengths ==
  /\ pc \in {"fav_unfav", "ranked"} => err = ""
  /\ Ranked =>
       \A l \in ListsOf(fav) :
         /\ Len(l[1]) = UpToN(l[2])
         /\ Range(l[1]) \subseteq WithStat(l[2])
         /\ \A i, j \in 1..Len(l[1]) : l[1][i] = l[1][j] => i = j

(* C14 witness: N = 3 with no defined mean return (k = 0, empty lists) and *)
(* two defined mean drawdowns (k = 2, lists of two).                       *)
C14_Witness ==
  /\ Ranked /\ breadth = 3
  /\ WithStat(avg_ret_series) = {}
  /\ WithStat(avg_dd_series) = {"XLK", "XLV"}
  /\ fav.favorite_by_return = <<>> /\ fav.unfavorite_by_return = <<>>
  /\ Len(fav.favorite_by_drawdown) = 2 /\ Len(fav.unfavorite_by_drawdown) = 2

-----------------------------------------------------------------------------
(* Claims about current_regime, checked under SpecRegime.                  *)

RegimeEnded == pc \in {"returned", "raised"}
RegimeReported == pc = "returned" /\ current # None

(* C15: the classes, the regime code and the two median thresholds         *)
(* current_regime reports for the latest timestamp are those               *)
(* classify_quadrant / rolling_percentile produce at that timestamp on the *)
(* same table with the same W.  current_regime drops the missing values    *)
(* before it rolls, so its window spans W observations where the           *)
(* classifier's spans W rows.                                              *)
C15_RegimeAgreesWithClassifier ==
  RegimeReported =>
    LET last == Len(ind.index)
        q    == ClassifyQuadrant(ind.index, ind.VIX_RATIO, ind.HY_IG_SPREAD, window)
    IN  /\ current.VIX_class = q.VIX_class[last]
        /\ current.HYIG_class = q.HYIG_class[last]
        /\ current.Quadrant = q.Quadrant[last]
        /\ current.threshold_VIX_median =
             RollingPercentile(ind.VIX_RATIO, window, 50)[last]
        /\ current.threshold_HY_IG_median =
             RollingPercentile(ind.HY_IG_SPREAD, window, 50)[last]

(* A column holds a value somewhere.                                       *)
HasValue(col) == \E i \in 1..Len(col) : col[i] # NaN

(* C18: when each indicator column holds at least one value, the call      *)
(* returns, without raising, an evaluation dated at the table's latest     *)
(* timestamp with the raw values observed there; it returns None only when *)
(* a column holds no value.  vix.loc[last_dt] raises KeyError when the     *)
(* last row misses an indicator.                                           *)
C18_RegimeReturnsAtLatest ==
  RegimeEnded =>
    /\ (HasValue(ind.VIX_RATIO) /\ HasValue(ind.HY_IG_SPREAD)) =>
         /\ RegimeReported
         /\ current.date = ToString(ind.index[Len(ind.index)])
         /\ current.VIX_ratio = ind.VIX_RATIO[Len(ind.index)]
         /\ current.HY_IG_spread = ind.HY_IG_SPREAD[Len(ind.index)]
    /\ (pc = "returned" /\ current = None) =>
         ~(HasValue(ind.VIX_RATIO) /\ HasValue(ind.HY_IG_SPREAD))

-----------------------------------------------------------------------------
(* Claims about the fatal precondition failures, checked under SpecErrors. *)

IsTable(t) == "index" \in DOMAIN t

LacksColumn(t) == ~({"VIX_RATIO", "HY_IG_SPREAD"} \subseteq DOMAIN t)

NoSharedTimestamp(a, b) == Range(a) \cap Range(b) = {}

(* The timestamps of the return stream: every price timestamp but the      *)
(* first, where no return exists.                                          *)
ReturnTimestamps(prices) == SubSeq(prices.index, 2, Len(prices.index))

(* The inputs of the run: the two files load_data reads, or the tables    *)
(* backtest_monthly_quarterly is called with.                              *)
GivenIndicators == IF data_dir.exists THEN data_dir.indicators_monthly ELSE ind
GivenPrices == IF data_dir.exists THEN data_dir.sector_etfs_monthly ELSE etf

(* The table pair lacks a required column or shares no timestamp.         *)
Mismatch ==
  /\ IsTable(GivenIndicators) /\ IsTable(GivenPrices)
  /\ \/ LacksColumn(GivenIndicators)
     \/ NoSharedTimestamp(GivenIndicators.index, GivenPrices.index)

(* The indicator table shares no timestamp with the return stream.         *)
NoReturnOverlap ==
  /\ IsTable(ind) /\ IsTable(etf)
  /\ NoSharedTimestamp(ind.index, ReturnTimestamps(etf))

(* Nothing is returned on a mismatch, and an exception raised on one is    *)
(* the ValueError of the checks or the KeyError of the column read.        *)
NoResultOnMismatch ==
  /\ Mismatch =>
       /\ pc \notin {"loaded", "monthly", "resample", "quarterly", "rank", "done"}
       /\ result = NoResult
       /\ pc = "raised" => err \in {"ValueError", "KeyError"}
       /\ (pc = "raised" /\ err = "KeyError") => LacksColumn(GivenIndicators)
  /\ NoReturnOverlap =>
       /\ pc \notin {"monthly", "resample", "quarterly", "rank", "done"}
       /\ result = NoResult
  /\ pc = "loaded" => ind.index = etf.index /\ ind.index # <<>>

(* The statement that meets the mismatch raises.                           *)
RaisesOnMismatch ==
  /\ (pc = "load" /\ Mismatch) => (pc' = "raised" /\ err' = "ValueError")
  /\ (pc = "classify" /\ IsTable(ind) /\ LacksColumn(ind)) =>
       (pc' = "raised" /\ err' = "KeyError")
  /\ (pc = "align" /\ NoReturnOverlap) => (pc' = "raised" /\ err' = "ValueError")

(* C16: with no timestamp shared by the indicator table and the instrument *)
(* table (or its return stream), or with a required indicator column       *)
(* absent, load_data and backtest_monthly_quarterly raise an error and     *)
(* return no result: load_data raises ValueError, the backtest raises at   *)
(* its column read or at its overlap check and never reaches its return.   *)
C16_MismatchRaises == []NoResultOnMismatch /\ [][RaisesOnMismatch]_vars

(* C16 witness: the only shared timestamp is the first price timestamp,    *)
(* which carries no return; the overlap check of the backtest has raised.  *)
C16_Witness ==
  /\ pc = "raised" /\ err = "ValueError"
  /\ ret_m # NoFrame
  /\ ind.index = <<0>> /\ etf.index = <<0, 1>>
  /\ result = NoResult

-----------------------------------------------------------------------------
(* Claims about repeated invocations, checked under SpecTwice.             *)

BothReturned == pc = "done" /\ previous # NoResult

(* C17: two invocations on the same indicator table, instrument table and  *)
(* window return identical dictionaries in every field, whenever they run. *)
(* metadata.generated_at is datetime.now() at the return, so it differs.   *)
C17_SameResultTwice == BothReturned => result = previous

-----------------------------------------------------------------------------
(* A further claim about returns_and_drawdown, checked under SpecReturns.  *)

F64Abs(a) == [a EXCEPT !.neg = FALSE]

(* Two float64 values differ by less than 2^-40.                           *)
Near(a, b) ==
  /\ ~IsNan(a) /\ ~IsNan(b)
  /\ F64Less(F64Abs(F64Sub(a, b)), F64Exact(FALSE, <<1>>, -40))

(* The highest level of a price column from its first quote up to row i.   *)
PeakLevel(px, i) ==
  px[CHOOSE j \in FirstQuoted(px)..i :
       \A k \in FirstQuoted(px)..i : px[k] <= px[j]]

(* C19: at every timestamp t after an instrument's first observation the   *)
(* drawdown is level(t) / max{level(s) : s <= t} - 1, the maximum taken    *)
(* from the series start with the first observation's level included; a    *)
(* decline in the first period shows as a negative drawdown at the second  *)
(* observation.  The code's cumulative growth is missing at the first      *)
(* observation, so its peak starts at the second.  Equality is taken up to *)
(* the rounding of the float64 operations.                                 *)
C19_DrawdownFromFirstLevel ==
  Returned =>
    \A c \in Instruments :
      \A i \in (FirstQuoted(etf.cols[c]) + 1)..Len(etf.index) :
        Near(dd_m.cols[c][i],
             F64Sub(F64Div(F64Level(etf.cols[c][i]),
                           F64Level(PeakLevel(etf.cols[c], i))), F64One))

-----------------------------------------------------------------------------
(* Claims about fetch_sector_etfs, checked under SpecFetchFair.            *)

(* The calls of history() made for ticker t, in order.                     *)
CallsFor(t) == SelectSeq(history, LAMBDA h : h.ticker = t)

Fetched == pc = "fetched"

FetchRetriesOnlyTransient ==
  /\ \A t \in Range(FetchTickers) :
       LET calls == CallsFor(t)
       IN  /\ Len(calls) <= 3
           /\ \A i \in 1..Len(calls) : calls[i].attempt = i
           \* a further attempt follows only a transient failure of attempt 1 or 2
           /\ \A i \in 1..(Len(calls) - 1) :
                calls[i].outcome \in {"ConnectionError", "TimeoutError", "OSError"}
           \* in the mapping only through an attempt that stored Close prices
           /\ (t \in data) <=> (\E i \in 1..Len(calls) : calls[i].outcome = "data")
           \* once the function has returned: attempted, and not left mid-retry
           /\ Fetched =>
                /\ Len(calls) >= 1
                /\ \/ Len(calls) = 3
                   \/ calls[Len(calls)].outcome \notin
                        {"ConnectionError", "TimeoutError", "OSError"}
  \* the calls of one ticker are made together, in the order of the tickers
  /\ \A i, j \in 1..Len(history) :
       (i < j) => PosOf(FetchTickers, history[i].ticker)
                    <= PosOf(FetchTickers, history[j].ticker)
  /\ data \subseteq Range(FetchTickers)

(* C20: for each ticker at least 1 and at most 3 calls of history(); a     *)
(* further call follows only a ConnectionError, TimeoutError or OSError on *)
(* attempt 1 or 2; after any other outcome, or the third transient         *)
(* failure, the ticker is left; a ticker is in the returned mapping iff    *)
(* one of its calls returned non-empty data with a Close column; a failed  *)
(* ticker does not keep the others from being attempted; and the function  *)
(* always returns.                                                         *)
C20_FetchRetriesAndTerminates == []FetchRetriesOnlyTransient /\ <>Fetched

(* C20 witness: the first ticker fails three times with transient errors   *)
(* and is left out, the second is then fetched at its second attempt.      *)
C20_Witness ==
  /\ Fetched
  /\ Len(CallsFor("XLK")) = 3 /\ CallsFor("XLK")[3].outcome = "OSError"
  /\ Len(CallsFor("XLF")) = 2 /\ CallsFor("XLF")[1].outcome = "TimeoutError"
  /\ data = {"XLF"}

====
